---- MODULE Spec2Model ----
(***************************************************************************)
(* Lexer and recursive-descent parser of the toy language front end        *)
(* (src/ast/c/ast.c; src/ast-wasm/c/wasm_ast.c holds the same tokenize and *)
(* parse code line for line).                                              *)
(*                                                                         *)
(* Characters are their ASCII codes, a C string is the sequence of its     *)
(* codes without the terminating NUL.  C indices are kept 0-based: the     *)
(* character input[i] of the source is input[i + 1] here.                  *)
(***************************************************************************)
EXTENDS Integers, Sequences, FiniteSets, TLC

(***************************************************************************)
(* Character codes                                                         *)
(***************************************************************************)
OrdTable ==
  ("\t" :> 9) @@ ("\n" :> 10) @@ (" " :> 32) @@ ("\"" :> 34)
  @@ ("#" :> 35) @@ ("(" :> 40) @@ (")" :> 41) @@ ("*" :> 42)
  @@ ("+" :> 43) @@ ("," :> 44) @@ ("-" :> 45) @@ ("/" :> 47)
  @@ ("0" :> 48) @@ ("1" :> 49) @@ ("2" :> 50) @@ ("3" :> 51)
  @@ ("4" :> 52) @@ ("5" :> 53) @@ ("6" :> 54) @@ ("7" :> 55)
  @@ ("8" :> 56) @@ ("9" :> 57) @@ (":" :> 58) @@ (";" :> 59)
  @@ ("<" :> 60) @@ ("=" :> 61) @@ (">" :> 62) @@ ("A" :> 65)
  @@ ("B" :> 66) @@ ("E" :> 69) @@ ("F" :> 70) @@ ("I" :> 73)
  @@ ("O" :> 79) @@ ("T" :> 84) @@ ("V" :> 86) @@ ("W" :> 87)
  @@ ("Z" :> 90) @@ ("[" :> 91) @@ ("\\" :> 92)
  @@ ("]" :> 93) @@ ("_" :> 95) @@ ("a" :> 97) @@ ("b" :> 98)
  @@ ("c" :> 99) @@ ("d" :> 100) @@ ("e" :> 101) @@ ("f" :> 102)
  @@ ("g" :> 103) @@ ("h" :> 104) @@ ("i" :> 105) @@ ("j" :> 106)
  @@ ("k" :> 107) @@ ("l" :> 108) @@ ("m" :> 109) @@ ("n" :> 110)
  @@ ("o" :> 111) @@ ("p" :> 112) @@ ("q" :> 113) @@ ("r" :> 114)
  @@ ("s" :> 115) @@ ("t" :> 116) @@ ("u" :> 117) @@ ("v" :> 118)
  @@ ("w" :> 119) @@ ("x" :> 120) @@ ("y" :> 121) @@ ("z" :> 122)
  @@ ("{" :> 123) @@ ("}" :> 125)

Ord(ch) == OrdTable[ch]

\* the C string whose characters are listed in s
Str(s) == [k \in DOMAIN s |-> Ord(s[k])]

(***************************************************************************)
(* enum TokenType                                                          *)
(***************************************************************************)
TOKEN_EOF == 0
TOKEN_VAR == 1
TOKEN_IF == 2
TOKEN_ELSE == 3
TOKEN_WHILE == 4
TOKEN_LPAREN == 5
TOKEN_RPAREN == 6
TOKEN_LBRACE == 7
TOKEN_RBRACE == 8
TOKEN_SEMICOLON == 9
TOKEN_PLUS == 10
TOKEN_MINUS == 11
TOKEN_MULTIPLY == 12
TOKEN_DIVIDE == 13
TOKEN_GREATER == 14
TOKEN_LESS == 15
TOKEN_EQUAL == 16
TOKEN_NUMBER == 17
TOKEN_STRING == 18
TOKEN_IDENTIFIER == 19

(***************************************************************************)
(* enum TokenizeState                                                      *)
(***************************************************************************)
STATE_SEARCHING == 0
STATE_STRING == 1
STATE_NUMBER == 2
STATE_IDENTIFIER == 3

(***************************************************************************)
(* enum NodeType                                                           *)
(***************************************************************************)
NODE_PROGRAM == 0
NODE_STATEMENT_BLOCK == 1
NODE_VARIABLE_STATEMENT == 2
NODE_IF_STATEMENT == 3
NODE_WHILE_STATEMENT == 4
NODE_ASSIGNMENT_STATEMENT == 5
NODE_CONDITION == 6
NODE_EXPRESSION == 7

(***************************************************************************)
(* Character classes                                                       *)
(***************************************************************************)
is_digit(c) == c >= Ord("0") /\ c <= Ord("9")

is_alpha(c) ==
  \/ (c >= Ord("a") /\ c <= Ord("z"))
  \/ (c >= Ord("A") /\ c <= Ord("Z"))
  \/ c = Ord("_")

is_whitespace(c) == c = Ord(" ") \/ c = Ord("\n") \/ c = Ord("\t")

(***************************************************************************)
(* get_location_from_index: <<line, column>> of the character at `index`   *)
(***************************************************************************)
RECURSIVE LocationFrom(_, _, _, _, _)
LocationFrom(k, index, inp, line, column) ==
  IF k < index
    THEN IF inp[k + 1] = Ord("\n")
           THEN LocationFrom(k + 1, index, inp, line + 1, 1)
           ELSE LocationFrom(k + 1, index, inp, line, column + 1)
    ELSE <<line, column>>

get_location_from_index(index, inp) == LocationFrom(0, index, inp, 1, 1)

(***************************************************************************)
(* Token array                                                             *)
(*                                                                         *)
(* A token's value is a pointer; `loc` says what it points into: "heap"    *)
(* (malloc'ed copy of the lexeme), "static" (the literal "EOF") or "stack" *)
(* (the block-local array str[2] of the Searching case, dead as soon as    *)
(* the block is left).  `str` is the text stored there when the token was  *)
(* added.                                                                  *)
(***************************************************************************)
init_token_array == << >>

\* add_token storing at index count - 1: the new token overwrites the last one
add_token_Overwrite(arr, type, value, line, column) ==
  IF arr = << >>
    THEN <<[type |-> type, value |-> value, line |-> line, column |-> column]>>
    ELSE [arr EXCEPT ![Len(arr)] =
            [type |-> type, value |-> value, line |-> line, column |-> column]]

add_token(arr, type, value, line, column) ==
  Append(arr, [type |-> type, value |-> value, line |-> line, column |-> column])

Heap(s) == [loc |-> "heap", str |-> s]
Stack(s) == [loc |-> "stack", str |-> s]
Static(s) == [loc |-> "static", str |-> s]

\* strncmp over the length of the keyword in place of strcmp
get_keyword_type_Prefix(s) ==
  IF Len(s) >= 3 /\ SubSeq(s, 1, 3) = Str(<<"v", "a", "r">>) THEN TOKEN_VAR
  ELSE IF Len(s) >= 2 /\ SubSeq(s, 1, 2) = Str(<<"i", "f">>) THEN TOKEN_IF
  ELSE IF Len(s) >= 4 /\ SubSeq(s, 1, 4) = Str(<<"e", "l", "s", "e">>) THEN TOKEN_ELSE
  ELSE IF Len(s) >= 5 /\ SubSeq(s, 1, 5) = Str(<<"w", "h", "i", "l", "e">>) THEN TOKEN_WHILE
  ELSE TOKEN_IDENTIFIER

get_keyword_type(s) ==
  IF s = Str(<<"v", "a", "r">>) THEN TOKEN_VAR
  ELSE IF s = Str(<<"i", "f">>) THEN TOKEN_IF
  ELSE IF s = Str(<<"e", "l", "s", "e">>) THEN TOKEN_ELSE
  ELSE IF s = Str(<<"w", "h", "i", "l", "e">>) THEN TOKEN_WHILE
  ELSE TOKEN_IDENTIFIER

\* type of a one-character token (the two inner switches of the Searching case)
SeparatorType(c) ==
  CASE c = Ord("(") -> TOKEN_LPAREN
    [] c = Ord(")") -> TOKEN_RPAREN
    [] c = Ord(";") -> TOKEN_SEMICOLON
    [] c = Ord("{") -> TOKEN_LBRACE
    [] c = Ord("}") -> TOKEN_RBRACE

OperatorType(c) ==
  CASE c = Ord("+") -> TOKEN_PLUS
    [] c = Ord("-") -> TOKEN_MINUS
    [] c = Ord("*") -> TOKEN_MULTIPLY
    [] c = Ord("/") -> TOKEN_DIVIDE
    [] c = Ord(">") -> TOKEN_GREATER
    [] c = Ord("<") -> TOKEN_LESS
    [] c = Ord("=") -> TOKEN_EQUAL

is_separator(c) == c \in {Ord("("), Ord(")"), Ord(";"), Ord("{"), Ord("}")}

is_operator(c) ==
  c \in {Ord("+"), Ord("-"), Ord("*"), Ord("/"), Ord(">"), Ord("<"), Ord("=")}

\* the len characters of inp from C index start (the copy loops of tokenize)
Extract(inp, start, len) == [j \in 1..len |-> inp[start + j]]

(***************************************************************************)
(* Program state                                                           *)
(***************************************************************************)
VARIABLES
  input,               \* the source text handed to tokenize
  pc,                  \* "tokenize", "parse", "parsed" (parse returned), "exit" (exit(1))
  state,               \* tokenize: TokenizeState
  state_start,         \* tokenize: index where the current lexeme began
  state_start_line,
  state_start_column,
  current_line,
  current_column,
  i,                   \* tokenize: cursor
  tokens,              \* the TokenArray (count = Len(tokens))
  token_start,         \* history: for each token, the index i at which its lexeme began
  ast,                 \* the tree returned by parse
  stderr,              \* the report written before exit(1)
  form,                \* "batch" (parse_file) or "embed" (generateAst); "none" while the
                       \* run is in the code the two share
  json_result,         \* generateAst: the shared output buffer
  json_capacity,
  json_length,
  ast_file,            \* parse_file: the output file
  calls,               \* history: the number of calls made so far
  call,                \* concurrent generateAst calls: the position of each
  appended,            \* history: the strings handed to json_append since the reset
  allocated,           \* history: the number of buffers json_append has allocated;
                       \* a non-NULL json_result is buffer number `allocated`
  freed,               \* history: the buffers handed to free
  held,                \* the buffer whose pointer the last return gave the caller,
                       \* and the call that returned it
  files,               \* main of the batch form: the texts of a.tst, b.tst, c.tst
  outputs,             \* the output files written so far, in order
  stdout,              \* what was printed to the standard output
  original_data,       \* sort.c: the arrays, each of data_size elements
  work_data,
  expected_data,
  iterations,
  benchmark,           \* main of sort.c: the run_benchmark call it is in (1..3)
  iteration,           \* run_benchmark: the loop counter i
  max,                 \* radix_sort: the maximum and the digit weight
  exp,
  passes,              \* history: the calls of counting_sort_for_radix of this sort
  overflowed           \* history: an `exp *= 10` left the range of int

vars ==
  <<input, pc, state, state_start, state_start_line, state_start_column,
    current_line, current_column, i, tokens, token_start, ast, stderr,
    form, json_result, json_capacity, json_length, ast_file, calls, call,
    appended, allocated, freed, held, files, outputs, stdout,
    original_data, work_data, expected_data, iterations, benchmark, iteration,
    max, exp, passes, overflowed>>

lexvars ==
  <<state, state_start, state_start_line, state_start_column,
    current_line, current_column, i, tokens, token_start>>

jsonvars == <<json_result, json_capacity, json_length>>

appendvars == <<appended>>

heapvars == <<allocated, freed, held>>

batchvars == <<files, outputs, stdout>>

sortvars ==
  <<original_data, work_data, expected_data, iterations, benchmark, iteration,
    max, exp, passes, overflowed>>

outvars ==
  <<form, jsonvars, ast_file, calls, call, appendvars, heapvars, batchvars, sortvars>>

NULL == [type |-> -1]
NullStr == [loc |-> "null"]
NoReport == [fmt |-> "none"]
NoFile == [loc |-> "none"]

(***************************************************************************)
(* tokenize: one action per case of the state switch, each one iteration   *)
(* of the scan loop, and one for the end of the loop.                      *)
(***************************************************************************)

\* position tracking at the end of the Searching case
AdvancePosition(c, line, column) ==
  IF c = Ord("\n") THEN <<line + 1, 1>> ELSE <<line, column + 1>>

\* the flag is a local of the loop body, cleared at the top of every iteration
no_dynamic_next == FALSE

SearchingAccepts(c) ==
  \/ (c = Ord("\"") /\ ~no_dynamic_next)
  \/ is_separator(c)
  \/ is_operator(c)
  \/ (is_digit(c) /\ ~no_dynamic_next)
  \/ (is_alpha(c) /\ ~no_dynamic_next)
  \/ is_whitespace(c)

LexSearching ==
  /\ pc = "tokenize"
  /\ i < Len(input)
  /\ state = STATE_SEARCHING
  /\ LET c == input[i + 1] IN
       /\ state_start' = i
       /\ IF SearchingAccepts(c)
            THEN /\ IF c = Ord("\"")
                      THEN /\ state_start_line' = current_line
                           /\ state_start_column' = current_column
                           /\ state' = STATE_STRING
                           /\ UNCHANGED <<tokens, token_start>>
                    ELSE IF is_separator(c)
                      THEN /\ tokens' = add_token(tokens, SeparatorType(c), Stack(<<c>>),
                                                  current_line, current_column)
                           /\ token_start' = Append(token_start, i)
                           /\ state' = STATE_SEARCHING
                           /\ UNCHANGED <<state_start_line, state_start_column>>
                    ELSE IF is_operator(c)
                      THEN /\ tokens' = add_token(tokens, OperatorType(c), Stack(<<c>>),
                                                  current_line, current_column)
                           /\ token_start' = Append(token_start, i)
                           /\ state' = STATE_SEARCHING
                           /\ UNCHANGED <<state_start_line, state_start_column>>
                    ELSE IF is_digit(c)
                      THEN /\ state_start_line' = current_line
                           /\ state_start_column' = current_column
                           /\ state' = STATE_NUMBER
                           /\ UNCHANGED <<tokens, token_start>>
                    ELSE IF is_alpha(c)
                      THEN /\ state_start_line' = current_line
                           /\ state_start_column' = current_column
                           /\ state' = STATE_IDENTIFIER
                           /\ UNCHANGED <<tokens, token_start>>
                    ELSE UNCHANGED <<state_start_line, state_start_column, state,
                                     tokens, token_start>>
                 /\ current_line' = AdvancePosition(c, current_line, current_column)[1]
                 /\ current_column' = AdvancePosition(c, current_line, current_column)[2]
                 /\ i' = i + 1
                 /\ UNCHANGED <<pc, stderr>>
            ELSE /\ stderr' = [fmt |-> "Unexpected character: %c", c |-> c]
                 /\ pc' = "exit"
                 /\ UNCHANGED <<state_start_line, state_start_column, state, tokens,
                                token_start, current_line, current_column, i>>
  /\ UNCHANGED <<outvars, input, ast>>

\* the Identifier case without the i++ of its else branch
LexIdentifier_NoAdvance ==
  /\ pc = "tokenize"
  /\ i < Len(input)
  /\ state = STATE_IDENTIFIER
  /\ LET c == input[i + 1] IN
       IF ~is_alpha(c)
         THEN LET len == i - state_start
                  token_value == Extract(input, state_start, len)
              IN /\ tokens' = add_token(tokens, get_keyword_type(token_value),
                                        Heap(token_value),
                                        state_start_line, state_start_column)
                 /\ token_start' = Append(token_start, state_start)
                 /\ state' = STATE_SEARCHING
                 /\ UNCHANGED i
         ELSE UNCHANGED <<i, tokens, token_start, state>>
  /\ UNCHANGED <<outvars, input, pc, ast, stderr, state_start, state_start_line,
                 state_start_column, current_line, current_column>>

LexIdentifier ==
  /\ pc = "tokenize"
  /\ i < Len(input)
  /\ state = STATE_IDENTIFIER
  /\ LET c == input[i + 1] IN
       IF ~is_alpha(c)
         THEN LET len == i - state_start
                  token_value == Extract(input, state_start, len)
              IN /\ tokens' = add_token(tokens, get_keyword_type(token_value),
                                        Heap(token_value),
                                        state_start_line, state_start_column)
                 /\ token_start' = Append(token_start, state_start)
                 /\ state' = STATE_SEARCHING
                 /\ UNCHANGED i
         ELSE /\ i' = i + 1
              /\ UNCHANGED <<tokens, token_start, state>>
  /\ UNCHANGED <<outvars, input, pc, ast, stderr, state_start, state_start_line,
                 state_start_column, current_line, current_column>>

LexString ==
  /\ pc = "tokenize"
  /\ i < Len(input)
  /\ state = STATE_STRING
  /\ LET c == input[i + 1] IN
       IF c = Ord("\"")
         THEN LET len == i - state_start
                  token_value == Extract(input, state_start, len)
              IN /\ tokens' = add_token(tokens, TOKEN_STRING, Heap(token_value),
                                        state_start_line, state_start_column)
                 /\ token_start' = Append(token_start, state_start)
                 /\ state' = STATE_SEARCHING
         ELSE UNCHANGED <<tokens, token_start, state>>
  /\ i' = i + 1
  /\ UNCHANGED <<outvars, input, pc, ast, stderr, state_start, state_start_line,
                 state_start_column, current_line, current_column>>

LexNumber ==
  /\ pc = "tokenize"
  /\ i < Len(input)
  /\ state = STATE_NUMBER
  /\ LET c == input[i + 1] IN
       IF ~is_digit(c)
         THEN LET len == i - state_start
                  token_value == Extract(input, state_start, len)
              IN /\ tokens' = add_token(tokens, TOKEN_NUMBER, Heap(token_value),
                                        state_start_line, state_start_column)
                 /\ token_start' = Append(token_start, state_start)
                 /\ state' = STATE_SEARCHING
                 /\ UNCHANGED i
         ELSE /\ i' = i + 1
              /\ UNCHANGED <<tokens, token_start, state>>
  /\ UNCHANGED <<outvars, input, pc, ast, stderr, state_start, state_start_line,
                 state_start_column, current_line, current_column>>

\* the end of the input in String state taken as a fatal error
LexEOF_StringError ==
  /\ pc = "tokenize"
  /\ ~(i < Len(input))
  /\ IF state = STATE_STRING
       THEN /\ stderr' = [fmt |-> "Unterminated string"]
            /\ pc' = "exit"
            /\ UNCHANGED <<tokens, token_start>>
       ELSE /\ tokens' = add_token(tokens, TOKEN_EOF, Static(Str(<<"E", "O", "F">>)),
                                   current_line, current_column)
            /\ token_start' = Append(token_start, i)
            /\ pc' = "parse"
            /\ UNCHANGED stderr
  /\ UNCHANGED <<outvars, input, ast, state, state_start, state_start_line,
                 state_start_column, current_line, current_column, i>>

\* the loop is left: the EOF token is added and tokenize returns
LexEOF ==
  /\ pc = "tokenize"
  /\ ~(i < Len(input))
  /\ tokens' = add_token(tokens, TOKEN_EOF, Static(Str(<<"E", "O", "F">>)),
                         current_line, current_column)
  /\ token_start' = Append(token_start, i)
  /\ pc' = "parse"
  /\ UNCHANGED <<outvars, input, ast, stderr, state, state_start, state_start_line,
                 state_start_column, current_line, current_column, i>>

(***************************************************************************)
(* Parser                                                                  *)
(*                                                                         *)
(* The Parser struct is a record; current_token is &tokens[                *)
(* current_token_index].  exit(1) is the field `report` becoming a report: *)
(* every operator below leaves an exited parser as it is, so nothing runs  *)
(* after an exit.  A parse function returns [p |-> parser, node |-> tree]. *)
(* Expression.left_token, a pointer into the token array, is the index of  *)
(* the token.                                                              *)
(***************************************************************************)
Exited(p) == p.report.fmt # "none"

current_token(p) == p.tokens[p.current_token_index + 1]

\* parser_error reporting the position of the token before the current one
parser_error_Previous(p, message) ==
  [p EXCEPT !.report = [fmt |-> "%s (%d:%d): unexpected symbol",
                        message |-> message,
                        line |-> p.tokens[IF p.current_token_index = 0 THEN 1
                                          ELSE p.current_token_index].line,
                        column |-> p.tokens[IF p.current_token_index = 0 THEN 1
                                            ELSE p.current_token_index].column]]

parser_error(p, message) ==
  [p EXCEPT !.report = [fmt |-> "%s (%d:%d): unexpected symbol",
                        message |-> message,
                        line |-> current_token(p).line,
                        column |-> current_token(p).column]]

next_token(p) ==
  LET index == p.current_token_index + 1 IN
    IF index >= p.token_count
      THEN [p EXCEPT !.current_token_index = index,
                     !.report = [fmt |-> "Unexpected end of input"]]
      ELSE [p EXCEPT !.current_token_index = index]

\* [p, r]: r is the returned flag
accept(p, token_type) ==
  IF Exited(p) THEN [p |-> p, r |-> FALSE]
  ELSE IF current_token(p).type = token_type
    THEN [p |-> next_token(p), r |-> TRUE]
    ELSE [p |-> p, r |-> FALSE]

peek(p, token_type) == current_token(p).type = token_type

expect(p, token_type) ==
  IF Exited(p) THEN p
  ELSE LET a == accept(p, token_type) IN
         IF a.r THEN a.p ELSE parser_error(p, "expect")

\* a || b || c over accept: the first type of `types` the current token has
RECURSIVE AcceptFirst(_, _, _)
AcceptFirst(p, types, k) ==
  IF k > Len(types) THEN [p |-> p, r |-> FALSE, k |-> 0]
  ELSE LET a == accept(p, types[k]) IN
         IF a.r THEN [p |-> a.p, r |-> TRUE, k |-> k]
         ELSE AcceptFirst(p, types, k + 1)

Failed(p) == [p |-> p, node |-> NULL]

\* p.calls counts the calls of parse_expression and parse_statement_block
\* and the iterations of the statement loop.  A parse whose count passes
\* twice the number of its tokens is cut off as one that does not end.
DivergedFormat == "(no end)"

Fuel(p) == 2 * p.token_count + 2

Entered(p) ==
  IF Exited(p) THEN p
  ELSE IF p.calls >= Fuel(p) THEN [p EXCEPT !.report = [fmt |-> DivergedFormat]]
  ELSE [p EXCEPT !.calls = @ + 1]

\* parse_expression without its MULTIPLY and DIVIDE branches
ExpressionOperators_PlusMinus ==
  <<[type |-> TOKEN_PLUS, operator |-> Static(Str(<<"+">>))],
    [type |-> TOKEN_MINUS, operator |-> Static(Str(<<"-">>))]>>

ExpressionOperators ==
  <<[type |-> TOKEN_PLUS, operator |-> Static(Str(<<"+">>))],
    [type |-> TOKEN_MINUS, operator |-> Static(Str(<<"-">>))],
    [type |-> TOKEN_MULTIPLY, operator |-> Static(Str(<<"*">>))],
    [type |-> TOKEN_DIVIDE, operator |-> Static(Str(<<"/">>))]>>

ConditionOperators ==
  <<[type |-> TOKEN_GREATER, operator |-> Static(Str(<<">">>))],
    [type |-> TOKEN_LESS, operator |-> Static(Str(<<"<">>))],
    [type |-> TOKEN_EQUAL, operator |-> Static(Str(<<"=">>))]>>

OperandTypes == <<TOKEN_NUMBER, TOKEN_STRING, TOKEN_IDENTIFIER>>

TypesOf(ops) == [k \in DOMAIN ops |-> ops[k].type]

(***************************************************************************)
(* Each parse function is written as a chain of operators, one per step of *)
(* its body, the results of the earlier steps being the parameters of the  *)
(* later ones: o, a, e are results of accept ([p, r, k]); c, b, eb, s,     *)
(* left_node, right, block are results of parse functions ([p, node]).     *)
(***************************************************************************)
RECURSIVE parse_expression(_)

\* the operator is stored, the right operand is not
ExpressionNode_NoRight(left_token, o, right) ==
  IF Exited(right.p) THEN Failed(right.p)
  ELSE [p |-> right.p,
        node |-> [type |-> NODE_EXPRESSION,
                  left_token |-> left_token,
                  operator |-> IF o.r THEN ExpressionOperators[o.k].operator ELSE NullStr,
                  right |-> NULL]]

\* the node is filled in and returned
ExpressionNode(left_token, o, right) ==
  IF Exited(right.p) THEN Failed(right.p)
  ELSE [p |-> right.p,
        node |-> [type |-> NODE_EXPRESSION,
                  left_token |-> left_token,
                  operator |-> IF o.r THEN ExpressionOperators[o.k].operator ELSE NullStr,
                  right |-> right.node]]

\* the right operand parsed from the left operand again, the cursor put back
ExpressionRight_Again(left_token, o) ==
  ExpressionNode(left_token, o,
                 IF o.r
                   THEN parse_expression([o.p EXCEPT !.current_token_index = left_token])
                   ELSE [p |-> o.p, node |-> NULL])

\* if (accept(PLUS)) ... else if (accept(DIVIDE)) ...: right = parse_expression
ExpressionRight(left_token, o) ==
  ExpressionNode(left_token, o,
                 IF o.r THEN parse_expression(o.p) ELSE [p |-> o.p, node |-> NULL])

\* left_token read after the operand was accepted
ExpressionOperand_After(p, a) ==
  IF a.r
    THEN ExpressionRight(a.p.current_token_index,
                         AcceptFirst(a.p, TypesOf(ExpressionOperators), 1))
    ELSE Failed(parser_error(p, "expression"))

\* a: the result of accept(NUMBER) || accept(STRING) || accept(IDENTIFIER)
ExpressionOperand(p, a) ==
  IF a.r
    THEN ExpressionRight(p.current_token_index,
                         AcceptFirst(a.p, TypesOf(ExpressionOperators), 1))
    ELSE Failed(parser_error(p, "expression"))

ExpressionEntered(p) ==
  IF Exited(p) THEN Failed(p)
  ELSE ExpressionOperand(p, AcceptFirst(p, OperandTypes, 1))

parse_expression(p) == ExpressionEntered(Entered(p))

ConditionNode(left_node, o, right) ==
  IF Exited(right.p) THEN Failed(right.p)
  ELSE [p |-> right.p,
        node |-> [type |-> NODE_CONDITION,
                  left |-> left_node.node,
                  operator |-> ConditionOperators[o.k].operator,
                  right |-> right.node]]

\* parse_condition without its final else: a condition without comparator
ConditionRight_Optional(left_node, o) ==
  IF Exited(left_node.p) THEN Failed(left_node.p)
  ELSE IF o.r THEN ConditionNode(left_node, o, parse_expression(o.p))
  ELSE [p |-> left_node.p,
        node |-> [type |-> NODE_CONDITION,
                  left |-> left_node.node,
                  operator |-> NullStr,
                  right |-> NULL]]

\* o: the result of accept(GREATER), else accept(LESS), else accept(EQUAL)
ConditionRight(left_node, o) ==
  IF Exited(left_node.p) THEN Failed(left_node.p)
  ELSE IF o.r THEN ConditionNode(left_node, o, parse_expression(o.p))
  ELSE Failed(parser_error(left_node.p, "condition"))

ConditionOperator(left_node) ==
  ConditionRight(left_node, AcceptFirst(left_node.p, TypesOf(ConditionOperators), 1))

parse_condition(p) ==
  IF Exited(p) THEN Failed(p)
  ELSE ConditionOperator(parse_expression(p))

RECURSIVE parse_statement(_)
RECURSIVE StatementLoop(_, _)

\* the loop ending at a ';' that no statement follows
StatementLoopNext_Trailing(statements, s, a) ==
  IF Exited(s.p) THEN Failed(s.p)
  ELSE IF a.r /\ current_token(a.p).type \in {TOKEN_VAR, TOKEN_IF, TOKEN_WHILE,
                                              TOKEN_IDENTIFIER}
    THEN StatementLoop(a.p, Append(statements, s.node))
  ELSE [p |-> a.p,
        node |-> [type |-> NODE_STATEMENT_BLOCK,
                  statements |-> Append(statements, s.node)]]

\* add_statement putting the statement in front of the list
StatementLoopNext_Prepend(statements, s, a) ==
  IF Exited(s.p) THEN Failed(s.p)
  ELSE IF a.r THEN StatementLoop(a.p, <<s.node>> \o statements)
  ELSE [p |-> a.p,
        node |-> [type |-> NODE_STATEMENT_BLOCK,
                  statements |-> <<s.node>> \o statements]]

\* while (accept(SEMICOLON)): a is the result of that accept
StatementLoopNext(statements, s, a) ==
  IF Exited(s.p) THEN Failed(s.p)
  ELSE IF a.r THEN StatementLoop(a.p, Append(statements, s.node))
  ELSE [p |-> a.p,
        node |-> [type |-> NODE_STATEMENT_BLOCK,
                  statements |-> Append(statements, s.node)]]

StatementLoopBody(statements, s) ==
  StatementLoopNext(statements, s, accept(s.p, TOKEN_SEMICOLON))

\* parse_statement_block: the do-while loop, `statements` the list so far
StatementLoopEntered(p, statements) ==
  IF Exited(p) THEN Failed(p)
  ELSE StatementLoopBody(statements, parse_statement(p))

StatementLoop(p, statements) == StatementLoopEntered(Entered(p), statements)

parse_statement_block(p) == StatementLoop(Entered(p), << >>)

\* the condition parsed as a bare expression
ParenCondition_Bare(p) == parse_expression(expect(p, TOKEN_LPAREN))

\* expect(LPAREN); parse_condition
ParenCondition(p) == parse_condition(expect(p, TOKEN_LPAREN))

\* expect(RBRACE) after a block
BlockClose(b) == [p |-> expect(b.p, TOKEN_RBRACE), node |-> b.node]

\* expect(LBRACE); parse_statement_block; expect(RBRACE)
BracedBlock(p) == BlockClose(parse_statement_block(expect(p, TOKEN_LBRACE)))

VariableNode(identifier, p) ==
  IF Exited(p) THEN Failed(p)
  ELSE [p |-> p, node |-> [type |-> NODE_VARIABLE_STATEMENT, identifier |-> identifier]]

\* the text of the current token is copied before its type is checked
VariableStatement(p) ==
  VariableNode(current_token(p).value.str, expect(p, TOKEN_IDENTIFIER))

IfNode(c, b, eb) ==
  IF Exited(eb.p) THEN Failed(eb.p)
  ELSE [p |-> eb.p,
        node |-> [type |-> NODE_IF_STATEMENT,
                  condition |-> c.node,
                  block |-> b.node,
                  else_block |-> eb.node]]

\* the else block parsed but not stored in the node
IfElse_Dropped(c, b, e) ==
  IfNode(c, b, [p |-> (IF e.r THEN BracedBlock(e.p) ELSE [p |-> e.p, node |-> NULL]).p,
                node |-> NULL])

\* e: the result of accept(ELSE)
IfElse(c, b, e) ==
  IfNode(c, b, IF e.r THEN BracedBlock(e.p) ELSE [p |-> e.p, node |-> NULL])

IfBlock(c, b) == IfElse(c, b, accept(b.p, TOKEN_ELSE))

IfCondition(c) == IfBlock(c, BracedBlock(expect(c.p, TOKEN_RPAREN)))

IfStatement(p) == IfCondition(ParenCondition(p))

WhileNode(c, b) ==
  IF Exited(b.p) THEN Failed(b.p)
  ELSE [p |-> b.p,
        node |-> [type |-> NODE_WHILE_STATEMENT,
                  condition |-> c.node,
                  block |-> b.node]]

WhileCondition(c) == WhileNode(c, BracedBlock(expect(c.p, TOKEN_RPAREN)))

WhileStatement(p) == WhileCondition(ParenCondition(p))

AssignmentNode(identifier, expression_node) ==
  IF Exited(expression_node.p) THEN Failed(expression_node.p)
  ELSE [p |-> expression_node.p,
        node |-> [type |-> NODE_ASSIGNMENT_STATEMENT,
                  identifier |-> identifier,
                  value |-> expression_node.node]]

AssignmentStatement(p) ==
  AssignmentNode(current_token(p).value.str,
                 parse_expression(expect(accept(p, TOKEN_IDENTIFIER).p, TOKEN_EQUAL)))

\* the dispatch taking the assignment branch without its peek
StatementDispatch_NoPeek(p, k) ==
  IF k.r /\ k.k = 1 THEN VariableStatement(k.p)
  ELSE IF k.r /\ k.k = 2 THEN IfStatement(k.p)
  ELSE IF k.r /\ k.k = 3 THEN WhileStatement(k.p)
  ELSE AssignmentStatement(p)

\* k: the result of accept(VAR), else accept(IF), else accept(WHILE)
StatementDispatch(p, k) ==
  IF k.r /\ k.k = 1 THEN VariableStatement(k.p)
  ELSE IF k.r /\ k.k = 2 THEN IfStatement(k.p)
  ELSE IF k.r /\ k.k = 3 THEN WhileStatement(k.p)
  ELSE IF peek(p, TOKEN_IDENTIFIER) THEN AssignmentStatement(p)
  ELSE Failed(parser_error(p, "statement"))

parse_statement(p) ==
  IF Exited(p) THEN Failed(p)
  ELSE StatementDispatch(p, AcceptFirst(p, <<TOKEN_VAR, TOKEN_IF, TOKEN_WHILE>>, 1))

\* parse_program stepping over the EOF token it has tested
ProgramNode_Consume(block) ==
  IF Exited(block.p) THEN Failed(block.p)
  ELSE IF current_token(block.p).type # TOKEN_EOF
    THEN Failed(parser_error(block.p, "program"))
  ELSE [p |-> next_token(block.p),
        node |-> [type |-> NODE_PROGRAM, block |-> block.node]]

\* parse_program without its test for EOF
ProgramNode_NoCheck(block) ==
  IF Exited(block.p) THEN Failed(block.p)
  ELSE [p |-> block.p, node |-> [type |-> NODE_PROGRAM, block |-> block.node]]

ProgramNode(block) ==
  IF Exited(block.p) THEN Failed(block.p)
  ELSE IF current_token(block.p).type # TOKEN_EOF
    THEN Failed(parser_error(block.p, "program"))
  ELSE [p |-> block.p, node |-> [type |-> NODE_PROGRAM, block |-> block.node]]

parse_program(p) == ProgramNode(parse_statement_block(p))

parse(token_array) ==
  parse_program([tokens |-> token_array,
                 token_count |-> Len(token_array),
                 current_token_index |-> 0,
                 calls |-> 0,
                 report |-> NoReport])

\* a failed parse reported, the caller going on as if the file were written
ParseReturn_Skip(r) ==
  IF Exited(r.p)
    THEN /\ pc' = "written"
         /\ stderr' = r.p.report
         /\ UNCHANGED ast
    ELSE /\ pc' = "parsed"
         /\ ast' = r.node
         /\ UNCHANGED stderr

\* r: what parse returned, or the parser at its exit
ParseReturn(r) ==
  IF Exited(r.p)
    THEN /\ pc' = "exit"
         /\ stderr' = r.p.report
         /\ UNCHANGED ast
    ELSE /\ pc' = "parsed"
         /\ ast' = r.node
         /\ UNCHANGED stderr

\* parse_file opening its output file before the tree is there
Parse_FileFirst ==
  /\ pc = "parse"
  /\ ParseReturn(parse(tokens))
  /\ ast_file' = [loc |-> "file", str |-> << >>]
  /\ UNCHANGED <<input, lexvars, form, jsonvars, calls, call,
                 appendvars, heapvars, batchvars, sortvars>>

Parse ==
  /\ pc = "parse"
  /\ ParseReturn(parse(tokens))
  /\ UNCHANGED <<outvars, input, lexvars>>

(***************************************************************************)
(* Serialization.  A document is the sequence of the character codes       *)
(* written.  Pieces of the format strings shared by the two serializers:   *)
(***************************************************************************)
Spaces(n) == [k \in 1..n |-> Ord(" ")]

\* "\"name\": "
Key(name) == Str(<<"\"">>) \o Str(name) \o Str(<<"\"", ":", " ">>)

NullText == Str(<<"n", "u", "l", "l">>)

\* the conversion %d of a value that is not negative
RECURSIVE Decimal(_)
Decimal(n) ==
  IF n < 10 THEN <<Ord("0") + n>>
  ELSE Decimal(n \div 10) \o <<Ord("0") + (n % 10)>>

(***************************************************************************)
(* The streaming serializer of the batch form (ast.c).  `toks` is the      *)
(* token array the left_token pointers of the tree point into.             *)
(***************************************************************************)
\* the loop of write_json_string: what is written for the characters of str
RECURSIVE WriteCharacters(_)
WriteCharacters(str) ==
  IF str = << >> THEN << >>
  ELSE LET c == Head(str)
       IN (IF c = Ord("\"") THEN Str(<<"\\", "\"">>)
           ELSE IF c = Ord("\\") THEN Str(<<"\\", "\\">>)
           ELSE IF c = Ord("\n") THEN Str(<<"\\", "n">>)
           ELSE IF c = Ord("\t") THEN Str(<<"\\", "t">>)
           ELSE <<c>>)
          \o WriteCharacters(Tail(str))

write_json_string(str) == Str(<<"\"">>) \o WriteCharacters(str) \o Str(<<"\"">>)

write_indent(indent) == Spaces(2 * indent)

write_token_to_json(token, indent) ==
  Str(<<"{", "\n">>)
  \o write_indent(indent + 1) \o Key(<<"t", "y", "p", "e">>) \o Decimal(token.type)
  \o Str(<<",", "\n">>)
  \o write_indent(indent + 1) \o Key(<<"v", "a", "l", "u", "e">>)
  \o write_json_string(token.value.str) \o Str(<<",", "\n">>)
  \o write_indent(indent + 1) \o Key(<<"l", "i", "n", "e">>) \o Decimal(token.line)
  \o Str(<<",", "\n">>)
  \o write_indent(indent + 1) \o Key(<<"c", "o", "l", "u", "m", "n">>)
  \o Decimal(token.column) \o Str(<<"\n">>)
  \o write_indent(indent) \o Str(<<"}">>)

\* ",\n" indent+1 "\"data\": {\n" indent+2 and the first key
WriteDataOpen(indent, name) ==
  Str(<<",", "\n">>) \o write_indent(indent + 1) \o Key(<<"d", "a", "t", "a">>)
  \o Str(<<"{", "\n">>) \o write_indent(indent + 2) \o Key(name)

\* the next key without the comma before it
WriteNextKey_NoComma(indent, name) ==
  Str(<<"\n">>) \o write_indent(indent + 2) \o Key(name)

\* ",\n" indent+2 and the next key
WriteNextKey(indent, name) ==
  Str(<<",", "\n">>) \o write_indent(indent + 2) \o Key(name)

\* "\n" indent+1 "}"
WriteDataClose(indent) == Str(<<"\n">>) \o write_indent(indent + 1) \o Str(<<"}">>)

RECURSIVE write_ast_to_json(_, _, _)
RECURSIVE WriteStatements(_, _, _, _)

\* the loop of write_statement_list_to_json from statement k on
WriteStatements(statements, k, indent, toks) ==
  IF k > Len(statements) THEN << >>
  ELSE write_indent(indent + 1)
       \o write_ast_to_json(statements[k], indent + 1, toks)
       \o (IF k < Len(statements) THEN Str(<<",">>) ELSE << >>)
       \o Str(<<"\n">>)
       \o WriteStatements(statements, k + 1, indent, toks)

write_statement_list_to_json(list, indent, toks) ==
  Str(<<"[", "\n">>) \o WriteStatements(list, 1, indent, toks)
  \o write_indent(indent) \o Str(<<"]">>)

\* the switch of write_ast_to_json
WriteData(node, indent, toks) ==
  CASE node.type = NODE_PROGRAM ->
         WriteDataOpen(indent, <<"b", "l", "o", "c", "k">>)
         \o write_ast_to_json(node.block, indent + 2, toks)
         \o WriteDataClose(indent)
    [] node.type = NODE_STATEMENT_BLOCK ->
         WriteDataOpen(indent, <<"s", "t", "a", "t", "e", "m", "e", "n", "t", "s">>)
         \o write_statement_list_to_json(node.statements, indent + 2, toks)
         \o WriteDataClose(indent)
    [] node.type = NODE_VARIABLE_STATEMENT ->
         WriteDataOpen(indent, <<"i", "d", "e", "n", "t", "i", "f", "i", "e", "r">>)
         \o write_json_string(node.identifier)
         \o WriteDataClose(indent)
    [] node.type = NODE_IF_STATEMENT ->
         WriteDataOpen(indent, <<"c", "o", "n", "d", "i", "t", "i", "o", "n">>)
         \o write_ast_to_json(node.condition, indent + 2, toks)
         \o WriteNextKey(indent, <<"b", "l", "o", "c", "k">>)
         \o write_ast_to_json(node.block, indent + 2, toks)
         \o WriteNextKey(indent, <<"e", "l", "s", "e", "B", "l", "o", "c", "k">>)
         \o write_ast_to_json(node.else_block, indent + 2, toks)
         \o WriteDataClose(indent)
    [] node.type = NODE_WHILE_STATEMENT ->
         WriteDataOpen(indent, <<"c", "o", "n", "d", "i", "t", "i", "o", "n">>)
         \o write_ast_to_json(node.condition, indent + 2, toks)
         \o WriteNextKey(indent, <<"b", "l", "o", "c", "k">>)
         \o write_ast_to_json(node.block, indent + 2, toks)
         \o WriteDataClose(indent)
    [] node.type = NODE_ASSIGNMENT_STATEMENT ->
         WriteDataOpen(indent, <<"i", "d", "e", "n", "t", "i", "f", "i", "e", "r">>)
         \o write_json_string(node.identifier)
         \o WriteNextKey(indent, <<"v", "a", "l", "u", "e">>)
         \o write_ast_to_json(node.value, indent + 2, toks)
         \o WriteDataClose(indent)
    [] node.type = NODE_CONDITION ->
         WriteDataOpen(indent, <<"l", "e", "f", "t">>)
         \o write_ast_to_json(node.left, indent + 2, toks)
         \o WriteNextKey(indent, <<"o", "p", "e", "r", "a", "t", "o", "r">>)
         \o write_json_string(node.operator.str)
         \o WriteNextKey(indent, <<"r", "i", "g", "h", "t">>)
         \o write_ast_to_json(node.right, indent + 2, toks)
         \o WriteDataClose(indent)
    [] node.type = NODE_EXPRESSION ->
         WriteDataOpen(indent, <<"l", "e", "f", "t", "T", "o", "k", "e", "n">>)
         \o write_token_to_json(toks[node.left_token + 1], indent + 2)
         \o WriteNextKey(indent, <<"o", "p", "e", "r", "a", "t", "o", "r">>)
         \o (IF node.operator # NullStr THEN write_json_string(node.operator.str)
             ELSE NullText)
         \o WriteNextKey(indent, <<"r", "i", "g", "h", "t">>)
         \o write_ast_to_json(node.right, indent + 2, toks)
         \o WriteDataClose(indent)
    [] OTHER -> << >>

write_ast_to_json(node, indent, toks) ==
  IF node = NULL THEN NullText
  ELSE Str(<<"{", "\n">>) \o write_indent(indent + 1)
       \o Key(<<"t", "y", "p", "e">>) \o Decimal(node.type)
       \o WriteData(node, indent, toks)
       \o Str(<<"\n">>) \o write_indent(indent) \o Str(<<"}">>)

(***************************************************************************)
(* The buffered serializer of the embeddable form (wasm_ast.c).  Every     *)
(* serialize function is the sequence of the strings it hands to           *)
(* json_append, in call order; json_append works on the three globals,     *)
(* here the record [result, capacity, length].                             *)
(***************************************************************************)
InitialCapacity == 4096

\* while (json_length + len >= json_capacity) json_capacity *= 2
RECURSIVE Grown(_, _)
Grown(capacity, needed) ==
  IF needed >= capacity THEN Grown(capacity * 2, needed) ELSE capacity

\* the contents of a buffer: nothing while the pointer is NULL
Contents(result, length) ==
  IF result = NullStr THEN << >> ELSE SubSeq(result.str, 1, length)

\* json_append copying to the start of the buffer instead of its end
json_append_Overwrite(buf, str) ==
  [result |-> Heap(str \o <<0>>),
   capacity |-> IF buf.capacity = 0 THEN InitialCapacity ELSE buf.capacity,
   length |-> Len(str)]

\* json_append growing the buffer only when the string alone does not fit
json_append_Exact(buf, str) ==
  LET len == Len(str)
      capacity ==
        IF buf.length + len > buf.capacity
          THEN IF buf.capacity = 0 THEN InitialCapacity ELSE buf.capacity * 2
          ELSE buf.capacity
  IN [result |-> Heap(Contents(buf.result, buf.length) \o str \o <<0>>),
      capacity |-> capacity,
      length |-> buf.length + len]

\* strcpy writes the characters of str and the terminating NUL; result.str
\* is the buffer from its start up to that NUL
json_append(buf, str) ==
  LET len == Len(str)
      capacity ==
        IF buf.length + len >= buf.capacity
          THEN Grown(IF buf.capacity = 0 THEN InitialCapacity ELSE buf.capacity * 2,
                     buf.length + len)
          ELSE buf.capacity
  IN [result |-> Heap(Contents(buf.result, buf.length) \o str \o <<0>>),
      capacity |-> capacity,
      length |-> buf.length + len]

\* sprintf(temp, "\\u%04x", c) for c < 32
HexDigit(d) == IF d < 10 THEN Ord("0") + d ELSE Ord("a") + (d - 10)
UnicodeEscape(c) ==
  Str(<<"\\", "u", "0", "0">>) \o <<HexDigit(c \div 16), HexDigit(c % 16)>>

\* the loop of json_append_escaped_string: one json_append per character
RECURSIVE AppendCharacters(_)
AppendCharacters(str) ==
  IF str = << >> THEN << >>
  ELSE LET c == Head(str)
       IN <<IF c = Ord("\"") THEN Str(<<"\\", "\"">>)
            ELSE IF c = Ord("\\") THEN Str(<<"\\", "\\">>)
            ELSE IF c = Ord("\n") THEN Str(<<"\\", "n">>)
            ELSE IF c = Ord("\t") THEN Str(<<"\\", "t">>)
            ELSE IF c = 13 THEN Str(<<"\\", "r">>)
            ELSE IF c = 8 THEN Str(<<"\\", "b">>)
            ELSE IF c = 12 THEN Str(<<"\\", "f">>)
            ELSE IF c < 32 THEN UnicodeEscape(c)
            ELSE <<c>> >>
          \o AppendCharacters(Tail(str))

json_append_escaped_string(str) ==
  <<Str(<<"\"">>)>> \o AppendCharacters(str) \o <<Str(<<"\"">>)>>

json_append_int(value) == <<Decimal(value)>>

\* "{\n    \"name\": " and ",\n    \"name\": "
FirstKey(name) == Str(<<"{", "\n">>) \o Spaces(4) \o Key(name)
NextKey(name) == Str(<<",", "\n">>) \o Spaces(4) \o Key(name)

\* "\n  }"
DataClose == Str(<<"\n">>) \o Spaces(2) \o Str(<<"}">>)

serialize_token(token) ==
  <<FirstKey(<<"t", "y", "p", "e">>)>>
  \o json_append_int(token.type)
  \o <<NextKey(<<"v", "a", "l", "u", "e">>)>>
  \o json_append_escaped_string(token.value.str)
  \o <<NextKey(<<"l", "i", "n", "e">>)>>
  \o json_append_int(token.line)
  \o <<NextKey(<<"c", "o", "l", "u", "m", "n">>)>>
  \o json_append_int(token.column)
  \o <<DataClose>>

RECURSIVE serialize_ast(_, _)
RECURSIVE SerializeStatements(_, _, _)

\* the loop of serialize_statement_list from statement k on
SerializeStatements(statements, k, toks) ==
  IF k > Len(statements) THEN << >>
  ELSE <<Spaces(4)>>
       \o serialize_ast(statements[k], toks)
       \o (IF k < Len(statements) THEN <<Str(<<",">>)>> ELSE << >>)
       \o <<Str(<<"\n">>)>>
       \o SerializeStatements(statements, k + 1, toks)

serialize_statement_list(list, toks) ==
  <<Str(<<"[", "\n">>)>> \o SerializeStatements(list, 1, toks)
  \o <<Spaces(2) \o Str(<<"]">>)>>

\* the switch of serialize_ast
SerializeData(node, toks) ==
  CASE node.type = NODE_PROGRAM ->
         <<FirstKey(<<"b", "l", "o", "c", "k">>)>>
         \o serialize_ast(node.block, toks)
         \o <<DataClose>>
    [] node.type = NODE_STATEMENT_BLOCK ->
         <<FirstKey(<<"s", "t", "a", "t", "e", "m", "e", "n", "t", "s">>)>>
         \o serialize_statement_list(node.statements, toks)
         \o <<DataClose>>
    [] node.type = NODE_VARIABLE_STATEMENT ->
         <<FirstKey(<<"i", "d", "e", "n", "t", "i", "f", "i", "e", "r">>)>>
         \o json_append_escaped_string(node.identifier)
         \o <<DataClose>>
    [] node.type = NODE_IF_STATEMENT ->
         <<FirstKey(<<"c", "o", "n", "d", "i", "t", "i", "o", "n">>)>>
         \o serialize_ast(node.condition, toks)
         \o <<NextKey(<<"b", "l", "o", "c", "k">>)>>
         \o serialize_ast(node.block, toks)
         \o <<NextKey(<<"e", "l", "s", "e", "B", "l", "o", "c", "k">>)>>
         \o serialize_ast(node.else_block, toks)
         \o <<DataClose>>
    [] node.type = NODE_WHILE_STATEMENT ->
         <<FirstKey(<<"c", "o", "n", "d", "i", "t", "i", "o", "n">>)>>
         \o serialize_ast(node.condition, toks)
         \o <<NextKey(<<"b", "l", "o", "c", "k">>)>>
         \o serialize_ast(node.block, toks)
         \o <<DataClose>>
    [] node.type = NODE_ASSIGNMENT_STATEMENT ->
         <<FirstKey(<<"i", "d", "e", "n", "t", "i", "f", "i", "e", "r">>)>>
         \o json_append_escaped_string(node.identifier)
         \o <<NextKey(<<"v", "a", "l", "u", "e">>)>>
         \o serialize_ast(node.value, toks)
         \o <<DataClose>>
    [] node.type = NODE_CONDITION ->
         <<FirstKey(<<"l", "e", "f", "t">>)>>
         \o serialize_ast(node.left, toks)
         \o <<NextKey(<<"o", "p", "e", "r", "a", "t", "o", "r">>)>>
         \o json_append_escaped_string(node.operator.str)
         \o <<NextKey(<<"r", "i", "g", "h", "t">>)>>
         \o serialize_ast(node.right, toks)
         \o <<DataClose>>
    [] node.type = NODE_EXPRESSION ->
         <<FirstKey(<<"l", "e", "f", "t", "T", "o", "k", "e", "n">>)>>
         \o serialize_token(toks[node.left_token + 1])
         \o <<NextKey(<<"o", "p", "e", "r", "a", "t", "o", "r">>)>>
         \o (IF node.operator # NullStr
               THEN json_append_escaped_string(node.operator.str)
               ELSE <<NullText>>)
         \o <<NextKey(<<"r", "i", "g", "h", "t">>)>>
         \o serialize_ast(node.right, toks)
         \o <<DataClose>>
    [] OTHER -> << >>

\* serialize_ast appending nothing for an absent node
serialize_ast_OmitNull(node, toks) ==
  IF node = NULL THEN << >>
  ELSE <<Str(<<"{", "\n">>) \o Spaces(2) \o Key(<<"t", "y", "p", "e">>)>>
       \o json_append_int(node.type)
       \o <<Str(<<",", "\n">>) \o Spaces(2) \o Key(<<"d", "a", "t", "a">>)>>
       \o SerializeData(node, toks)
       \o <<Str(<<"\n", "}">>)>>

serialize_ast(node, toks) ==
  IF node = NULL THEN <<NullText>>
  ELSE <<Str(<<"{", "\n">>) \o Spaces(2) \o Key(<<"t", "y", "p", "e">>)>>
       \o json_append_int(node.type)
       \o <<Str(<<",", "\n">>) \o Spaces(2) \o Key(<<"d", "a", "t", "a">>)>>
       \o SerializeData(node, toks)
       \o <<Str(<<"\n", "}">>)>>

\* json_append called with each of the strings in turn: the calls for the
\* first half of the strings, then (once that buffer is known) the calls
\* for the second half
RECURSIVE Appended(_, _)
AppendedRest(half, strs) ==
  IF half.length >= 0 THEN Appended(half, strs) ELSE half

Appended(buf, strs) ==
  IF strs = << >> THEN buf
  ELSE IF Len(strs) = 1 THEN json_append(buf, strs[1])
  ELSE AppendedRest(Appended(buf, SubSeq(strs, 1, Len(strs) \div 2)),
                    SubSeq(strs, Len(strs) \div 2 + 1, Len(strs)))

(***************************************************************************)
(* What follows parse.  parse_file writes the tree to a temporary file and *)
(* copies that file to the output file; generateAst appends the tree to    *)
(* the buffer it emptied on entry and returns the buffer.                  *)
(***************************************************************************)
Buffer == [result |-> json_result, capacity |-> json_capacity, length |-> json_length]

SetBuffer(buf) ==
  /\ json_result' = buf.result
  /\ json_capacity' = buf.capacity
  /\ json_length' = buf.length

\* parse_file after parse: write_ast_to_json, "\n", then the copy
WriteAst ==
  /\ pc = "parsed"
  /\ form \in {"none", "batch"}
  /\ form' = "batch"
  /\ ast_file' = [loc |-> "file",
                  str |-> write_ast_to_json(ast, 0, tokens) \o Str(<<"\n">>)]
  /\ outputs' = Append(outputs, ast_file')
  /\ pc' = "written"
  /\ UNCHANGED <<input, lexvars, ast, stderr, jsonvars, calls, call,
                 appendvars, heapvars, files, stdout, sortvars>>

\* generateAst after parse_program: serialize_ast, json_append("\0"), return
SerializeAst ==
  /\ pc = "parsed"
  /\ form \in {"none", "embed"}
  /\ form' = "embed"
  /\ SetBuffer(Appended(Buffer, serialize_ast(ast, tokens) \o << << >> >>))
  /\ appended' = appended \o serialize_ast(ast, tokens) \o << << >> >>
  /\ allocated' = IF json_result = NullStr THEN allocated + 1 ELSE allocated
  /\ held' = [buffer |-> allocated', call |-> calls]
  /\ pc' = "returned"
  /\ UNCHANGED <<input, lexvars, ast, stderr, ast_file, calls, call,
                 freed, batchvars, sortvars>>

(***************************************************************************)
(* Inputs                                                                  *)
(*                                                                         *)
(* The source texts the model is run on: every text over a small alphabet  *)
(* up to MaxLen characters, the examples of the specification, and texts   *)
(* derived from the grammar (as sequences of lexemes, then written out     *)
(* with different separators), some of them with one lexeme dropped or a   *)
(* ';' inserted.                                                           *)
(***************************************************************************)
MaxLen == 3        \* longest text over Alphabet
MaxChain == 3      \* most operands in a generated expression
MaxDepth == 2      \* deepest nesting of if/while in a generated program

Alphabet == {Ord("i"), Ord("f"), Ord("1"), Ord(" "), Ord("\n"), Ord("\""),
             Ord("="), Ord(";"), Ord("#")}

ShortTexts == UNION {[1..n -> Alphabet] : n \in 0..MaxLen}

L(s) == <<Str(s)>>     \* a one-lexeme sequence

OperandCycle == <<Str(<<"1">>), Str(<<"x">>), Str(<<"\"", "s", "\"">>)>>
ArithLexemes == {Str(<<"+">>), Str(<<"-">>), Str(<<"*">>), Str(<<"/">>)}
CompareLexemes == {Str(<<">">>), Str(<<"<">>), Str(<<"=">>)}

\* expressions of n operands; the k-th operand from the right is fixed, every
\* combination of operators
RECURSIVE Chains(_)
Chains(n) ==
  LET a == OperandCycle[((n - 1) % 3) + 1] IN
    IF n = 1 THEN {<<a>>}
    ELSE {<<a, op>> \o c : op \in ArithLexemes, c \in Chains(n - 1)}

Expressions == UNION {Chains(n) : n \in 1..MaxChain}

Assignments == {L(<<"x">>) \o L(<<"=">>) \o e : e \in Expressions}

Conditions == {a \o <<cmp>> \o b : a \in Chains(1) \cup Chains(2), cmp \in CompareLexemes,
                                   b \in Chains(1)}

PlainStatements == {L(<<"v", "a", "r">>) \o L(<<"x">>),
                    L(<<"y">>) \o L(<<"=">>) \o L(<<"2">>)}

\* kw ( x > 1 ) {
Opening(kw) ==
  L(kw) \o L(<<"(">>) \o L(<<"x">>) \o L(<<">">>) \o L(<<"1">>) \o L(<<")">>) \o L(<<"{">>)

\* the if, if-else and while statements over given blocks
Compound(blocks, elses) ==
  {Opening(<<"i", "f">>) \o b \o L(<<"}">>) : b \in blocks}
  \cup {Opening(<<"i", "f">>) \o b \o L(<<"}">>) \o L(<<"e", "l", "s", "e">>)
          \o L(<<"{">>) \o e \o L(<<"}">>) : b \in blocks, e \in elses}
  \cup {Opening(<<"w", "h", "i", "l", "e">>) \o b \o L(<<"}">>) : b \in blocks}

\* blocks of one or two statements
Sequenced(statements) ==
  statements
  \cup {s \o L(<<";">>) \o L(<<"v", "a", "r">>) \o L(<<"z">>) : s \in statements}
  \cup {L(<<"z">>) \o L(<<"=">>) \o L(<<"3">>) \o L(<<";">>) \o s :
          s \in statements \ PlainStatements}

FlatBlocks ==
  Sequenced(PlainStatements \cup Compound(Sequenced(PlainStatements), PlainStatements))

\* statements nested exactly d deep
RECURSIVE Deep(_)
Deep(d) ==
  IF d = 0 THEN PlainStatements
  ELSE {Opening(<<"i", "f">>) \o s \o L(<<"}">>) : s \in Deep(d - 1)}
       \cup {Opening(<<"w", "h", "i", "l", "e">>) \o s \o L(<<";">>) \o L(<<"v", "a", "r">>)
               \o L(<<"z">>) \o L(<<"}">>) : s \in Deep(d - 1)}
       \cup {Opening(<<"i", "f">>) \o L(<<"y">>) \o L(<<"=">>) \o L(<<"2">>) \o L(<<"}">>)
               \o L(<<"e", "l", "s", "e">>) \o L(<<"{">>) \o s \o L(<<"}">>) :
               s \in Deep(d - 1)}

ConditionStatements ==
  {L(kw) \o L(<<"(">>) \o c \o L(<<")">>) \o L(<<"{">>) \o L(<<"y">>) \o L(<<"=">>)
     \o L(<<"2">>) \o L(<<"}">>) : kw \in {<<"i", "f">>, <<"w", "h", "i", "l", "e">>},
                                  c \in Conditions}

Programs ==
  Assignments \cup ConditionStatements \cup FlatBlocks \cup UNION {Deep(d) : d \in 0..MaxDepth}

\* one lexeme dropped, or a ';' put in front of a lexeme or at the end
Drop(d, k) == SubSeq(d, 1, k - 1) \o SubSeq(d, k + 1, Len(d))
Insert(d, k, x) == SubSeq(d, 1, k - 1) \o <<x>> \o SubSeq(d, k, Len(d))

Damaged ==
  LET base == FlatBlocks \cup UNION {{L(<<"x">>) \o L(<<"=">>) \o e : e \in Chains(n)} : n \in 1..2}
                        \cup {c \in ConditionStatements : c[1] = Str(<<"i", "f">>) /\ Len(c) = 10}
  IN UNION {{Drop(d, k) : k \in 1..Len(d)} \cup
            {Insert(d, k, Str(<<";">>)) : k \in 2..(Len(d) + 1)} : d \in base}

\* whether two lexemes written one after the other would be read as one
Merges(a, b) ==
  \/ is_alpha(a[Len(a)]) /\ is_alpha(b[1])
  \/ is_digit(a[Len(a)]) /\ is_digit(b[1])

\* the text of a lexeme sequence: "tight" separates only lexemes that would
\* merge, "space" and "lines" separate all of them
RECURSIVE Written(_, _)
Written(d, style) ==
  IF Len(d) = 0 THEN << >>
  ELSE IF Len(d) = 1 THEN d[1]
  ELSE LET sep == IF style = "space" THEN <<Ord(" ")>>
                  ELSE IF style = "lines" THEN <<Ord("\n")>>
                  ELSE IF Merges(d[1], d[2]) THEN <<Ord(" ")>>
                  ELSE << >>
       IN d[1] \o sep \o Written(Tail(d), style)

Trails == {<< >>, <<Ord("\n")>>}

\* the texts derivable from the grammar that the model is run on
GrammarTexts ==
  {Written(d, style) \o t : d \in Programs, style \in {"tight", "space", "lines"}, t \in Trails}

DamagedTexts == {Written(d, "tight") \o <<Ord("\n")>> : d \in Damaged \ {<< >>}}

\* the example inputs of the specification's testable properties
Examples ==
  {Str(<<"v", "a", "r", " ", "x">>),
   Str(<<"x", "=", "1", "+", "2">>),
   Str(<<"x", "=", "1", "+", "2", "+", "3">>),
   Str(<<"x", "=", "1", "*", "2", "+", "3", "\n">>),
   Str(<<"i", "f", "(", "x", ">", "1", ")", "{", "y", "=", "2", "}">>),
   Str(<<"i", "f", "(", "x", ">", "1", ")", "{", "y", "=", "2", "}",
         "e", "l", "s", "e", "{", "y", "=", "3", "}">>),
   Str(<<"x", "=", "1", ";">>),
   Str(<<"i", "f", "(", "x", ")", "{", "y", "=", "1", "}">>),
   Str(<<"i", "f", "(", "x", ">", "1", ")", "{", "y", "=", "2", ";", "}">>)}

\* assignments of a string literal holding one character: a letter, a
\* backslash, and control characters with and without a short escape
StringCharacters == {Ord("a"), Ord("\\"), Ord("\n"), Ord("\t"), 13, 8, 12, 1, 31}

StringTexts ==
  {Str(<<"x", "=", "\"">>) \o <<c>> \o Str(<<"\"">>) \o t :
     c \in StringCharacters, t \in Trails}

\* keywords and their near misses, each closed by a blank, and lexemes of
\* letters and of digits that touch each other or a punctuation character
Words ==
  {Str(<<"v", "a", "r">>), Str(<<"i", "f">>), Str(<<"e", "l", "s", "e">>),
   Str(<<"w", "h", "i", "l", "e">>), Str(<<"i", "f", "f">>),
   Str(<<"v", "a", "r", "i", "a", "b", "l", "e">>), Str(<<"I", "f">>),
   Str(<<"V", "a", "r">>), Str(<<"I", "F">>), Str(<<"w", "h", "i", "l">>),
   Str(<<"W", "h", "i", "l", "e">>), Str(<<"e", "l", "s", "e", "e">>),
   Str(<<"_", "i", "f">>), Str(<<"i", "f", "_">>), Str(<<"x", "_", "y">>)}

KeywordTexts ==
  {w \o Str(<<" ">>) : w \in Words}
    \cup {Str(<<"i", "f", "f", " ", "v", "a", "r", "i", "a", "b", "l", "e", " ",
                "I", "f", " ", "i", "f", "\n">>)}

TouchingTexts ==
  {Str(<<"x", "1">>), Str(<<"x", "1", " ">>), Str(<<"1", "x", " ">>),
   Str(<<"x", "1", "y", "2", "\n">>), Str(<<"x", ";">>), Str(<<"1", ";">>),
   Str(<<"x", "=", "1", "2", "a", "b", ";", "\n">>),
   Str(<<"a", "b", "+", "1", "2", ")", "\n">>),
   Str(<<"i", "f", "1", "(", "v", "a", "r", "2", "\n">>)}

Inputs ==
  ShortTexts \cup Examples \cup GrammarTexts \cup DamagedTexts \cup StringTexts
    \cup KeywordTexts \cup TouchingTexts

\* the texts of the calls that follow the first one
MaxCalls == 2      \* most calls of generateAst in a run

LaterInputs == Examples \cup StringTexts

(***************************************************************************)
(* Specification                                                           *)
(***************************************************************************)
Started ==
  /\ pc = "tokenize"
  /\ tokens = init_token_array
  /\ token_start = << >>
  /\ state = STATE_SEARCHING
  /\ state_start = 0
  /\ state_start_line = 1
  /\ state_start_column = 1
  /\ current_line = 1
  /\ current_column = 1
  /\ i = 0
  /\ ast = NULL
  /\ stderr = NoReport

\* no pointer returned yet
NotHeld == [buffer |-> 0, call |-> 0]

\* no buffer allocated, freed or handed out yet
NoBuffers ==
  /\ appended = << >>
  /\ allocated = 0
  /\ freed = {}
  /\ held = NotHeld

\* outside a run of the batch main
NoBatch ==
  /\ files = << >>
  /\ outputs = << >>
  /\ stdout = << >>

\* outside the sorting benchmark: its globals as they are defined
NoSort ==
  /\ original_data = << >>
  /\ work_data = << >>
  /\ expected_data = << >>
  /\ iterations = 10
  /\ benchmark = 0
  /\ iteration = 0
  /\ max = 0
  /\ exp = 0
  /\ passes = 0
  /\ overflowed = FALSE

\* the globals of the buffered form as they are defined, no output file yet
NoOutput ==
  /\ form = "none"
  /\ json_result = NullStr
  /\ json_capacity = 0
  /\ json_length = 0
  /\ ast_file = NoFile
  /\ calls = 1
  /\ call = << >>
  /\ NoBuffers
  /\ NoBatch
  /\ NoSort

Init == input \in Inputs /\ Started /\ NoOutput

\* the locals of tokenize and parse at the start of a call
Restarted ==
  /\ pc' = "tokenize"
  /\ tokens' = init_token_array
  /\ token_start' = << >>
  /\ state' = STATE_SEARCHING
  /\ state_start' = 0
  /\ state_start_line' = 1
  /\ state_start_column' = 1
  /\ current_line' = 1
  /\ current_column' = 1
  /\ i' = 0
  /\ ast' = NULL
  /\ stderr' = NoReport

\* generateAst called again: the buffer is freed and the globals reset, then
\* tokenize starts on the new text
GenerateAst_NoReset ==
  /\ pc = "returned"
  /\ calls < MaxCalls
  /\ calls' = calls + 1
  /\ input' \in LaterInputs
  /\ UNCHANGED jsonvars
  /\ Restarted
  /\ UNCHANGED <<form, ast_file, call, appendvars, heapvars, batchvars, sortvars>>

\* generateAst resetting the globals without freeing the buffer
GenerateAst_Leak ==
  /\ pc = "returned"
  /\ calls < MaxCalls
  /\ calls' = calls + 1
  /\ input' \in LaterInputs
  /\ json_result' = NullStr
  /\ json_capacity' = 0
  /\ json_length' = 0
  /\ appended' = << >>
  /\ Restarted
  /\ UNCHANGED <<form, ast_file, call, heapvars, batchvars, sortvars>>

GenerateAst ==
  /\ pc = "returned"
  /\ calls < MaxCalls
  /\ calls' = calls + 1
  /\ input' \in LaterInputs
  /\ freed' = IF json_result = NullStr THEN freed ELSE freed \cup {allocated}
  /\ json_result' = NullStr
  /\ json_capacity' = 0
  /\ json_length' = 0
  /\ appended' = << >>
  /\ Restarted
  /\ UNCHANGED <<form, ast_file, call, allocated, held, batchvars, sortvars>>

Next ==
  \/ LexSearching
  \/ LexIdentifier
  \/ LexString
  \/ LexNumber
  \/ LexEOF
  \/ Parse
  \/ WriteAst
  \/ SerializeAst
  \/ GenerateAst

Spec == Init /\ [][Next]_vars

(***************************************************************************)
(* Two calls of generateAst whose steps interleave.  tokenize and parse    *)
(* work on locals of the call, so a call is its entry (the reset of the    *)
(* shared buffer), then one step per json_append of its serialization,     *)
(* then its return.  call.of[t] is the position of call t: the strings it  *)
(* has yet to append (strs), and as history the document of its own tree   *)
(* (own), whether another call took a step on the buffer since its entry   *)
(* (disturbed) and the buffer contents it returned (result).  A change of  *)
(* the running call is counted in call.switches.                           *)
(***************************************************************************)
\* the characters of a sequence of strings, one after the other
RECURSIVE Flat(_)
Flat(strs) ==
  IF strs = << >> THEN << >>
  ELSE IF Len(strs) = 1 THEN strs[1]
  ELSE Flat(SubSeq(strs, 1, Len(strs) \div 2))
       \o Flat(SubSeq(strs, Len(strs) \div 2 + 1, Len(strs)))

MaxSwitches == 2   \* most changes of the running call

Threads == {1, 2}

\* the texts of the concurrent calls: "var x\n", "var y\n"
CallNames == {Str(<<"x">>), Str(<<"y">>)}

\* what tokenize returns for "var <name>\n"
CallTokens(name) ==
  add_token(add_token(add_token(init_token_array,
                                TOKEN_VAR, Heap(Str(<<"v", "a", "r">>)), 1, 1),
                      TOKEN_IDENTIFIER, Heap(name), 1, 3),
            TOKEN_EOF, Static(Str(<<"E", "O", "F">>)), 2, 1)

\* the json_append calls of generateAst for the text
CallStrings(name) ==
  serialize_ast(parse(CallTokens(name)).node, CallTokens(name)) \o << << >> >>

Idle == [pc |-> "idle", strs |-> << >>, own |-> << >>, disturbed |-> FALSE,
         result |-> << >>]

\* t runs: a switch if another call ran last
Scheduled(t) ==
  IF call.last \in {0, t} THEN call.switches ELSE call.switches + 1

\* the calls other than t that are between entry and return are disturbed
Disturbing(t, of) ==
  [u \in Threads |->
     IF u # t /\ of[u].pc = "appending" THEN [of[u] EXCEPT !.disturbed = TRUE]
     ELSE of[u]]

\* entry of generateAst: free(json_result) and the reset of the globals
CallEnter(t) ==
  /\ pc = "calls"
  /\ call.of[t].pc = "idle"
  /\ Scheduled(t) <= MaxSwitches
  /\ \E name \in CallNames :
       call' = [of |-> Disturbing(t, [call.of EXCEPT ![t] =
                                        [pc |-> "appending",
                                         strs |-> CallStrings(name),
                                         own |-> Flat(CallStrings(name)),
                                         disturbed |-> FALSE,
                                         result |-> << >>]]),
                last |-> t,
                switches |-> Scheduled(t)]
  /\ freed' = IF json_result = NullStr THEN freed ELSE freed \cup {allocated}
  /\ json_result' = NullStr
  /\ json_capacity' = 0
  /\ json_length' = 0
  /\ appended' = << >>
  /\ calls' = calls + 1
  /\ UNCHANGED <<input, pc, lexvars, ast, stderr, form, ast_file,
                 allocated, held, batchvars, sortvars>>

\* the next json_append of call t
CallAppend(t) ==
  /\ pc = "calls"
  /\ call.of[t].pc = "appending"
  /\ call.of[t].strs # << >>
  /\ Scheduled(t) <= MaxSwitches
  /\ SetBuffer(json_append(Buffer, Head(call.of[t].strs)))
  /\ appended' = Append(appended, Head(call.of[t].strs))
  /\ allocated' = IF json_result = NullStr THEN allocated + 1 ELSE allocated
  /\ call' = [of |-> Disturbing(t, [call.of EXCEPT ![t].strs = Tail(@)]),
              last |-> t,
              switches |-> Scheduled(t)]
  /\ UNCHANGED <<input, pc, lexvars, ast, stderr, form, ast_file, calls,
                 freed, held, batchvars, sortvars>>

\* return json_result
CallReturn(t) ==
  /\ pc = "calls"
  /\ call.of[t].pc = "appending"
  /\ call.of[t].strs = << >>
  /\ Scheduled(t) <= MaxSwitches
  /\ call' = [of |-> [call.of EXCEPT ![t].pc = "returned",
                                     ![t].result = Contents(json_result, json_length)],
              last |-> t,
              switches |-> Scheduled(t)]
  /\ held' = [buffer |-> allocated, call |-> calls]
  /\ UNCHANGED <<input, pc, lexvars, ast, stderr, form, jsonvars, ast_file, calls,
                 appendvars, allocated, freed, batchvars, sortvars>>

ConcurrentInit ==
  /\ input = << >>
  /\ pc = "calls"
  /\ tokens = init_token_array
  /\ token_start = << >>
  /\ state = STATE_SEARCHING
  /\ state_start = 0
  /\ state_start_line = 1
  /\ state_start_column = 1
  /\ current_line = 1
  /\ current_column = 1
  /\ i = 0
  /\ ast = NULL
  /\ stderr = NoReport
  /\ form = "embed"
  /\ json_result = NullStr
  /\ json_capacity = 0
  /\ json_length = 0
  /\ ast_file = NoFile
  /\ calls = 0
  /\ call = [of |-> [t \in Threads |-> Idle], last |-> 0, switches |-> 0]
  /\ NoBuffers
  /\ NoBatch
  /\ NoSort

ConcurrentNext ==
  \/ \E t \in Threads : CallEnter(t)
  \/ \E t \in Threads : CallAppend(t)
  \/ \E t \in Threads : CallReturn(t)

ConcurrentSpec == ConcurrentInit /\ [][ConcurrentNext]_vars

(***************************************************************************)
(* The batch form: main hands the texts of a.tst, b.tst and c.tst to       *)
(* parse_file one after the other and then prints the timing summary.      *)
(* The texts are drawn from BatchTexts: texts that parse, one with a       *)
(* character no lexical rule takes and one the grammar rejects.            *)
(***************************************************************************)
BatchTexts ==
  {Str(<<"v", "a", "r", " ", "x", "\n">>),
   Str(<<"x", "=", "1", "+", "\"", "s", "\"", "\n">>),
   Str(<<"x", "=", "#", "\n">>),
   Str(<<"v", "a", "r", " ", ";", "\n">>)}

FileCount == 3

SummaryFormat == "{\n  \"parse\": %.2f,\n  \"marshal\": %.2f\n}\n"

\* main calling parse_file for the next file
NextFile ==
  /\ pc = "written"
  /\ form = "batch"
  /\ calls < Len(files)
  /\ calls' = calls + 1
  /\ input' = files[calls + 1]
  /\ ast_file' = NoFile
  /\ Restarted
  /\ UNCHANGED <<form, jsonvars, call, appendvars, heapvars, batchvars, sortvars>>

\* main after the last parse_file: the four printf calls, return 0
Summary ==
  /\ pc = "written"
  /\ form = "batch"
  /\ calls = Len(files)
  /\ stdout' = Append(stdout, [fmt |-> SummaryFormat])
  /\ pc' = "finished"
  /\ UNCHANGED <<input, lexvars, ast, stderr, form, jsonvars, ast_file, calls, call,
                 appendvars, heapvars, files, outputs, sortvars>>

BatchInit ==
  /\ files \in [1..FileCount -> BatchTexts]
  /\ input = files[1]
  /\ Started
  /\ form = "none"
  /\ json_result = NullStr
  /\ json_capacity = 0
  /\ json_length = 0
  /\ ast_file = NoFile
  /\ calls = 1
  /\ call = << >>
  /\ NoBuffers
  /\ outputs = << >>
  /\ stdout = << >>
  /\ NoSort

BatchNext ==
  \/ LexSearching
  \/ LexIdentifier
  \/ LexString
  \/ LexNumber
  \/ LexEOF
  \/ Parse
  \/ WriteAst
  \/ NextFile
  \/ Summary

BatchSpec == BatchInit /\ [][BatchNext]_vars

(***************************************************************************)
(* json_append on its own: any strings, in any number up to MaxAppends,    *)
(* after the reset generateAst makes on entry.  The strings are short ones *)
(* and ones that fill the first buffer exactly, by one less, and twice     *)
(* over; the reset is taken once, at any point.                            *)
(***************************************************************************)
MaxAppends == 4    \* most calls of json_append after a reset

Fill(c, n) == [k \in 1..n |-> c]

AppendStrings ==
  {<< >>, Str(<<"a">>),
   Fill(Ord("b"), InitialCapacity - 1), Fill(Ord("c"), InitialCapacity),
   Fill(Ord("d"), 2 * InitialCapacity)}

\* json_append(str)
JsonAppend ==
  /\ pc = "append"
  /\ Len(appended) < MaxAppends
  /\ \E str \in AppendStrings :
       /\ SetBuffer(json_append(Buffer, str))
       /\ appended' = Append(appended, str)
  /\ allocated' = IF json_result = NullStr THEN allocated + 1 ELSE allocated
  /\ UNCHANGED <<input, pc, lexvars, ast, stderr, form, ast_file, calls, call,
                 freed, held, batchvars, sortvars>>

\* the reset at the entry of generateAst
JsonReset ==
  /\ pc = "append"
  /\ calls = 0
  /\ freed' = IF json_result = NullStr THEN freed ELSE freed \cup {allocated}
  /\ json_result' = NullStr
  /\ json_capacity' = 0
  /\ json_length' = 0
  /\ appended' = << >>
  /\ calls' = calls + 1
  /\ UNCHANGED <<input, pc, lexvars, ast, stderr, form, ast_file, call,
                 allocated, held, batchvars, sortvars>>

AppendInit ==
  /\ input = << >>
  /\ pc = "append"
  /\ tokens = init_token_array
  /\ token_start = << >>
  /\ state = STATE_SEARCHING
  /\ state_start = 0
  /\ state_start_line = 1
  /\ state_start_column = 1
  /\ current_line = 1
  /\ current_column = 1
  /\ i = 0
  /\ ast = NULL
  /\ stderr = NoReport
  /\ form = "embed"
  /\ json_result = NullStr
  /\ json_capacity = 0
  /\ json_length = 0
  /\ ast_file = NoFile
  /\ calls = 0
  /\ call = << >>
  /\ NoBuffers
  /\ NoBatch
  /\ NoSort

AppendNext == JsonAppend \/ JsonReset

AppendSpec == AppendInit /\ [][AppendNext]_vars

(***************************************************************************)
(* The sorting benchmark (sort.c).  An array is the sequence of its first  *)
(* data_size elements; element k of the C array is element k + 1 of the    *)
(* sequence.  The three sorts are operators; radix_sort is also stepped,   *)
(* one action per pass of its digit loop, because the `exp *= 10` that     *)
(* ends a pass can leave the range of int, which C leaves undefined: the   *)
(* run then goes on with the wrapped product or is ended by a signal.      *)
(***************************************************************************)
IntMax == 2147483647

data_size == Len(original_data)

copy_array(src) == src

Swapped(data, a, b) == [data EXCEPT ![a] = data[b], ![b] = data[a]]

\* the inner loop of bubble_sort from j on
RECURSIVE BubbleInner(_, _, _)
BubbleInner(data, i0, j) ==
  IF j < Len(data) - i0 - 1
    THEN BubbleInner(IF data[j + 1] > data[j + 2] THEN Swapped(data, j + 1, j + 2)
                     ELSE data,
                     i0, j + 1)
    ELSE data

\* the outer loop of bubble_sort from i0 on
RECURSIVE BubbleOuter(_, _)
BubbleOuter(data, i0) ==
  IF i0 < Len(data) THEN BubbleOuter(BubbleInner(data, i0, 0), i0 + 1) ELSE data

bubble_sort(data) == BubbleOuter(data, 0)

\* a / b of C for a >= 0: the quotient truncated toward zero
Quotient(a, b) == IF b > 0 THEN a \div b ELSE 0 - (a \div (0 - b))

\* (arr[i] / exp) % 10
Digit(value, weight) == Quotient(value, weight) % 10

\* count[d] after the first loop and the running sums of the second
CountUpTo(arr, weight, d) ==
  Cardinality({k \in DOMAIN arr : Digit(arr[k], weight) <= d})

\* the third loop of counting_sort_for_radix from i0 down: element i0 goes to
\* count[digit] - 1, and count[digit] is decremented
RECURSIVE BuildOutput(_, _, _, _, _)
BuildOutput(arr, weight, count, output, i0) ==
  IF i0 >= 0
    THEN BuildOutput(arr, weight,
                     [count EXCEPT ![Digit(arr[i0 + 1], weight)] = @ - 1],
                     [output EXCEPT ![count[Digit(arr[i0 + 1], weight)]] = arr[i0 + 1]],
                     i0 - 1)
    ELSE output

counting_sort_for_radix(arr, weight) ==
  BuildOutput(arr, weight, [d \in 0..9 |-> CountUpTo(arr, weight, d)], arr,
              Len(arr) - 1)

\* the first loop of radix_sort
RECURSIVE Maximum(_, _, _)
Maximum(data, i0, m) ==
  IF i0 < Len(data)
    THEN Maximum(data, i0 + 1, IF data[i0 + 1] > m THEN data[i0 + 1] ELSE m)
    ELSE m

\* exp * 10 is an int
InRange(weight) == weight <= IntMax \div 10

\* the low 32 bits of weight * 10 read as an int, for 0 < weight
Wrapped10(weight) ==
  LET lo == (weight % 65536) * 10
      hi == ((weight \div 65536) * 10 + lo \div 65536) % 65536
  IN IF hi >= 32768 THEN (hi - 65536) * 65536 + (lo % 65536)
     ELSE hi * 65536 + (lo % 65536)

\* the digit loop of radix_sort from exp = weight on, every product wrapped
RECURSIVE RadixLoop(_, _, _)
RadixLoop(data, m, weight) ==
  IF Quotient(m, weight) > 0
    THEN RadixLoop(counting_sort_for_radix(data, weight), m,
                   IF InRange(weight) THEN weight * 10 ELSE Wrapped10(weight))
    ELSE data

radix_sort(data) ==
  IF data = << >> THEN data ELSE RadixLoop(data, Maximum(data, 1, data[1]), 1)

\* the loop of partition from j on, then the final swap; the result is the
\* array and the returned index
RECURSIVE PartitionLoop(_, _, _, _, _)
PartitionLoop(arr, high, pivot, i0, j) ==
  IF j <= high - 1
    THEN IF arr[j + 1] <= pivot
           THEN PartitionLoop(Swapped(arr, i0 + 2, j + 1), high, pivot, i0 + 1, j + 1)
           ELSE PartitionLoop(arr, high, pivot, i0, j + 1)
    ELSE [arr |-> Swapped(arr, i0 + 2, high + 1), pi |-> i0 + 1]

partition(arr, low, high) == PartitionLoop(arr, high, arr[high + 1], low - 1, low)

RECURSIVE quick_sort_recursive(_, _, _)
QuickSortParts(parted, low, high) ==
  quick_sort_recursive(quick_sort_recursive(parted.arr, low, parted.pi - 1),
                       parted.pi + 1, high)

quick_sort_recursive(arr, low, high) ==
  IF low < high THEN QuickSortParts(partition(arr, low, high), low, high) ELSE arr

quick_sort(data) == quick_sort_recursive(data, 0, Len(data) - 1)

\* check_results: the first index that differs, or none
Mismatches(data) == {k \in DOMAIN data : data[k] # expected_data[k]}

check_results(data) == Mismatches(data) = {}

FirstMismatch(data) == CHOOSE k \in Mismatches(data) : \A j \in Mismatches(data) : k <= j

BenchmarkNames == <<"Bubble sort", "Radix sort", "Quick sort">>

\* run_benchmark returns; main calls the next one or returns 0
BenchmarkReturns ==
  /\ benchmark' = benchmark + 1
  /\ iteration' = 0
  /\ pc' = IF benchmark = Len(BenchmarkNames) THEN "finished" ELSE "bench"

\* run_benchmark after sort_func returned with work_data = sorted
Validated(sorted) ==
  IF check_results(sorted)
    THEN /\ stdout' = Append(stdout, [fmt |-> "%s iteration %d completed in %.2fms\n",
                                      name |-> BenchmarkNames[benchmark],
                                      iteration |-> iteration + 1])
         /\ iteration' = iteration + 1
         /\ pc' = "bench"
         /\ UNCHANGED benchmark
    ELSE /\ stdout' = stdout
                        \o <<[fmt |-> "Error: Mismatch at index %d. Expected %d, got %d\n",
                              index |-> FirstMismatch(sorted) - 1,
                              expected |-> expected_data[FirstMismatch(sorted)],
                              got |-> sorted[FirstMismatch(sorted)]],
                             [fmt |-> "Error: %s failed validation on iteration %d\n",
                              name |-> BenchmarkNames[benchmark],
                              iteration |-> iteration + 1]>>
         /\ BenchmarkReturns

\* what the benchmark does not touch
astvars ==
  <<input, lexvars, ast, stderr, form, jsonvars, ast_file, calls, call,
    appendvars, heapvars, files, outputs>>

\* main up to the first run_benchmark
SortMain ==
  /\ pc = "main"
  /\ IF data_size = 0
       THEN /\ stdout' = Append(stdout, [fmt |-> "Failed to parse data.json\n"])
            /\ pc' = "finished"
            /\ UNCHANGED <<expected_data, benchmark>>
       ELSE /\ stdout' = Append(stdout,
                                [fmt |-> "Loaded %d data points, running %d iterations\n",
                                 size |-> data_size, iterations |-> iterations])
            /\ expected_data' = quick_sort(copy_array(original_data))
            /\ benchmark' = 1
            /\ pc' = "bench"
  /\ UNCHANGED <<astvars, original_data, work_data, iterations, iteration, max, exp,
                 passes, overflowed>>

\* one iteration of run_benchmark("Bubble sort", bubble_sort)
BubbleIteration ==
  /\ pc = "bench"
  /\ benchmark = 1
  /\ iteration < iterations
  /\ work_data' = bubble_sort(copy_array(original_data))
  /\ Validated(work_data')
  /\ UNCHANGED <<astvars, original_data, expected_data, iterations, max, exp,
                 passes, overflowed>>

\* one iteration of run_benchmark("Quick sort", quick_sort)
QuickIteration ==
  /\ pc = "bench"
  /\ benchmark = 3
  /\ iteration < iterations
  /\ work_data' = quick_sort(copy_array(original_data))
  /\ Validated(work_data')
  /\ UNCHANGED <<astvars, original_data, expected_data, iterations, max, exp,
                 passes, overflowed>>

\* an iteration of run_benchmark("Radix sort", radix_sort) up to the digit
\* loop: the copy, the maximum, exp = 1
RadixStart ==
  /\ pc = "bench"
  /\ benchmark = 2
  /\ iteration < iterations
  /\ work_data' = copy_array(original_data)
  /\ max' = Maximum(original_data, 1, original_data[1])
  /\ exp' = 1
  /\ passes' = 0
  /\ pc' = "radix"
  /\ UNCHANGED <<astvars, original_data, expected_data, iterations, benchmark,
                 iteration, stdout, overflowed>>

\* exp *= 10
Multiplied ==
  IF InRange(exp)
    THEN /\ exp' = exp * 10
         /\ UNCHANGED <<pc, overflowed>>
    ELSE /\ overflowed' = TRUE
         /\ \/ exp' = Wrapped10(exp) /\ UNCHANGED pc
            \/ exp' = exp /\ pc' = "abort"

\* a pass of the digit loop: counting_sort_for_radix, then exp *= 10
RadixPass ==
  /\ pc = "radix"
  /\ Quotient(max, exp) > 0
  /\ work_data' = counting_sort_for_radix(work_data, exp)
  /\ passes' = passes + 1
  /\ Multiplied
  /\ UNCHANGED <<astvars, original_data, expected_data, iterations, benchmark,
                 iteration, max, stdout>>

\* the digit loop is left, radix_sort returns
RadixReturn ==
  /\ pc = "radix"
  /\ ~(Quotient(max, exp) > 0)
  /\ Validated(work_data)
  /\ UNCHANGED <<astvars, original_data, work_data, expected_data, iterations, max,
                 exp, passes, overflowed>>

\* the loop of run_benchmark is left: the median is printed
BenchmarkEnd ==
  /\ pc = "bench"
  /\ ~(iteration < iterations)
  /\ stdout' = Append(stdout, [fmt |-> "%s: %.2fms\n",
                                name |-> BenchmarkNames[benchmark]])
  /\ BenchmarkReturns
  /\ UNCHANGED <<astvars, original_data, work_data, expected_data, iterations, max,
                 exp, passes, overflowed>>

MaxSize == 3        \* most elements of the data
MaxIterations == 2  \* most iterations of a benchmark

\* values of one, two, nine and ten decimal digits, the last two past
\* IntMax \div 10
SortValues == {0, 7, 42, 999999999, 1000000000, IntMax}

SortArrays == UNION {[1..n -> SortValues] : n \in 0..MaxSize}

\* after parse_data_json and parse_config_json
SortInit ==
  /\ input = << >>
  /\ pc = "main"
  /\ tokens = init_token_array
  /\ token_start = << >>
  /\ state = STATE_SEARCHING
  /\ state_start = 0
  /\ state_start_line = 1
  /\ state_start_column = 1
  /\ current_line = 1
  /\ current_column = 1
  /\ i = 0
  /\ ast = NULL
  /\ stderr = NoReport
  /\ form = "none"
  /\ json_result = NullStr
  /\ json_capacity = 0
  /\ json_length = 0
  /\ ast_file = NoFile
  /\ calls = 0
  /\ call = << >>
  /\ NoBuffers
  /\ NoBatch
  /\ original_data \in SortArrays
  /\ work_data = [k \in 1..data_size |-> 0]
  /\ expected_data = [k \in 1..data_size |-> 0]
  /\ iterations \in 1..MaxIterations
  /\ benchmark = 0
  /\ iteration = 0
  /\ max = 0
  /\ exp = 0
  /\ passes = 0
  /\ overflowed = FALSE

SortNext ==
  \/ SortMain
  \/ BubbleIteration
  \/ RadixStart
  \/ RadixPass
  \/ RadixReturn
  \/ QuickIteration
  \/ BenchmarkEnd

SortSpec == SortInit /\ [][SortNext]_vars

(***************************************************************************)
(* The same program with the scan loop of tokenize weakly fair: an         *)
(* iteration that can be taken is taken.                                   *)
(***************************************************************************)
Tokenize == LexSearching \/ LexIdentifier \/ LexString \/ LexNumber \/ LexEOF

LiveSpec == Spec /\ WF_vars(Tokenize)

(***************************************************************************)
(* Reference definitions used by the properties below                      *)
(***************************************************************************)

\* tokenize returned (it did not stop at an unexpected character)
TokenizeReturned == pc # "tokenize" /\ stderr.fmt # "Unexpected character: %c"

\* first index >= k of inp that holds no digit / no letter, 0-based
RECURSIVE DigitsEnd(_, _)
DigitsEnd(inp, k) ==
  IF k < Len(inp) /\ is_digit(inp[k + 1]) THEN DigitsEnd(inp, k + 1) ELSE k

RECURSIVE LettersEnd(_, _)
LettersEnd(inp, k) ==
  IF k < Len(inp) /\ is_alpha(inp[k + 1]) THEN LettersEnd(inp, k + 1) ELSE k

\* index of the next double quote at or after k, Len(inp) if there is none
RECURSIVE QuoteAt(_, _)
QuoteAt(inp, k) ==
  IF k < Len(inp) /\ inp[k + 1] # Ord("\"") THEN QuoteAt(inp, k + 1) ELSE k

\* the lexemes of section 4.1 from index k on, each with its kind, text and
\* start index; an unterminated string literal and everything after it
\* gives none
RECURSIVE Lexemes(_, _)
Lexemes(inp, k) ==
  IF k >= Len(inp) THEN << >>
  ELSE LET c == inp[k + 1] IN
    IF is_whitespace(c) THEN Lexemes(inp, k + 1)
    ELSE IF is_separator(c)
      THEN <<[type |-> SeparatorType(c), text |-> <<c>>, start |-> k]>> \o Lexemes(inp, k + 1)
    ELSE IF is_operator(c)
      THEN <<[type |-> OperatorType(c), text |-> <<c>>, start |-> k]>> \o Lexemes(inp, k + 1)
    ELSE IF is_digit(c)
      THEN <<[type |-> TOKEN_NUMBER, text |-> Extract(inp, k, DigitsEnd(inp, k) - k),
              start |-> k]>> \o Lexemes(inp, DigitsEnd(inp, k))
    ELSE IF is_alpha(c)
      THEN <<[type |-> get_keyword_type(Extract(inp, k, LettersEnd(inp, k) - k)),
              text |-> Extract(inp, k, LettersEnd(inp, k) - k),
              start |-> k]>> \o Lexemes(inp, LettersEnd(inp, k))
    ELSE IF c = Ord("\"") /\ QuoteAt(inp, k + 1) < Len(inp)
      THEN <<[type |-> TOKEN_STRING,
              text |-> Extract(inp, k + 1, QuoteAt(inp, k + 1) - (k + 1)),
              start |-> k]>> \o Lexemes(inp, QuoteAt(inp, k + 1) + 1)
    ELSE << >>

TypesOfTokens(toks) == [k \in DOMAIN toks |-> toks[k].type]

\* kind and, for identifiers, keywords and numbers, the text of each token
KindAndText(toks) ==
  [k \in DOMAIN toks |->
     <<toks[k].type,
       IF toks[k].type \in {TOKEN_VAR, TOKEN_IF, TOKEN_ELSE, TOKEN_WHILE,
                            TOKEN_NUMBER, TOKEN_IDENTIFIER}
         THEN toks[k].value.str ELSE << >> >>]

LexemeKindAndText(ls) ==
  [k \in DOMAIN ls |->
     <<ls[k].type,
       IF ls[k].type \in {TOKEN_VAR, TOKEN_IF, TOKEN_ELSE, TOKEN_WHILE,
                          TOKEN_NUMBER, TOKEN_IDENTIFIER}
         THEN ls[k].text ELSE << >> >>]

(***************************************************************************)
(* C1. Every source text derivable from the grammar of section 4.2 (tokens *)
(* optionally separated by white space, no trailing white space required)  *)
(* is tokenized and parsed into a Program tree without a fatal error.      *)
(* As stated, this fails: see C1_ValidTextParses.                          *)
(***************************************************************************)
C1_ValidTextParses == input \in GrammarTexts => pc # "exit"

(***************************************************************************)
(* C2. When tokenize returns, the token sequence holds exactly one token   *)
(* per lexeme of the input, in input order, followed by EOF: no lexeme is  *)
(* lost.  As stated, this fails: see C2_NoLexemeLost.                      *)
(***************************************************************************)
C2_NoLexemeLost ==
  TokenizeReturned =>
    KindAndText(tokens) = LexemeKindAndText(Lexemes(input, 0)) \o <<<<TOKEN_EOF, << >> >>>>

(***************************************************************************)
(* C3. Every token emitted by tokenize records the true 1-based line and   *)
(* column of the first character of its lexeme.  As stated, this fails:    *)
(* see C3_TokenPositionTrue.                                               *)
(***************************************************************************)
C3_TokenPositionTrue ==
  \A k \in DOMAIN tokens :
    tokens[k].type # TOKEN_EOF =>
      <<tokens[k].line, tokens[k].column>> = get_location_from_index(token_start[k], input)

(***************************************************************************)
(* C4. Throughout the scan the counters (current_line, current_column) are *)
(* the true position of the character at the cursor i, and the EOF token   *)
(* carries the position just past the last character of the input.  As     *)
(* stated, this fails: see C4_CounterIsPosition.                           *)
(***************************************************************************)
C4_CounterIsPosition ==
  /\ pc = "tokenize" => <<current_line, current_column>> = get_location_from_index(i, input)
  /\ TokenizeReturned =>
       <<tokens[Len(tokens)].line, tokens[Len(tokens)].column>>
         = get_location_from_index(Len(input), input)

(***************************************************************************)
(* C5. When tokenize returns, the token sequence contains the EOF token    *)
(* exactly once, as its last element (and none while the scan runs); the   *)
(* sequence is only ever appended to (each call of tokenize starts with an *)
(* array of its own).                                                      *)
(***************************************************************************)
EofOnlyLast ==
  /\ pc = "tokenize" => \A k \in DOMAIN tokens : tokens[k].type # TOKEN_EOF
  /\ TokenizeReturned =>
       /\ Len(tokens) >= 1
       /\ tokens[Len(tokens)].type = TOKEN_EOF
       /\ \A k \in 1..(Len(tokens) - 1) : tokens[k].type # TOKEN_EOF

AppendOnly ==
  IF calls' = calls
    THEN /\ Len(tokens') >= Len(tokens)
         /\ SubSeq(tokens', 1, Len(tokens)) = tokens
    ELSE tokens' = init_token_array

C5_EofOnceAtEnd == []EofOnlyLast /\ [][AppendOnly]_vars

C5_Witness ==
  /\ pc = "parse"
  /\ Len(tokens) >= 4
  /\ \E k \in DOMAIN tokens : tokens[k].type = TOKEN_STRING

(***************************************************************************)
(* C6. tokenize terminates on every finite input: every iteration of the   *)
(* scan loop advances the cursor i by one, or leaves Identifier or Number  *)
(* state for Searching without advancing (from where the next iteration    *)
(* advances or aborts), so the scan reaches the end of the input or a      *)
(* fatal lex error.                                                        *)
(***************************************************************************)
IterationAdvances ==
  (pc = "tokenize" /\ pc' = "tokenize") =>
    \/ i' = i + 1
    \/ /\ i' = i
       /\ state \in {STATE_IDENTIFIER, STATE_NUMBER}
       /\ state' = STATE_SEARCHING

C6_TokenizeTerminates == <>(pc # "tokenize") /\ [][IterationAdvances]_vars

\* an Identifier or Number state was just left with the cursor where it was
C6_Witness ==
  /\ pc = "tokenize"
  /\ state = STATE_SEARCHING
  /\ i < Len(input)
  /\ Len(tokens) >= 2
  /\ tokens[Len(tokens)].type \in {TOKEN_NUMBER, TOKEN_IDENTIFIER}
  /\ i = token_start[Len(tokens)] + Len(tokens[Len(tokens)].value.str)

(***************************************************************************)
(* Reference definitions over token sequences and trees                    *)
(***************************************************************************)
ParseErrorFormat == "%s (%d:%d): unexpected symbol"

\* parse stopped with the report `message`
ParseErrorIs(message) ==
  /\ pc = "exit"
  /\ stderr.fmt = ParseErrorFormat
  /\ stderr.message = message

IsOperand(t) == t.type \in {TOKEN_NUMBER, TOKEN_STRING, TOKEN_IDENTIFIER}
IsArithmetic(t) == t.type \in {TOKEN_PLUS, TOKEN_MINUS, TOKEN_MULTIPLY, TOKEN_DIVIDE}
IsComparator(t) == t.type \in {TOKEN_GREATER, TOKEN_LESS, TOKEN_EQUAL}
StartsStatement(t) == t.type \in {TOKEN_VAR, TOKEN_IF, TOKEN_WHILE, TOKEN_IDENTIFIER}

\* the character of an operator token's kind
OperatorText(type) ==
  CASE type = TOKEN_PLUS -> Str(<<"+">>)
    [] type = TOKEN_MINUS -> Str(<<"-">>)
    [] type = TOKEN_MULTIPLY -> Str(<<"*">>)
    [] type = TOKEN_DIVIDE -> Str(<<"/">>)
    [] type = TOKEN_GREATER -> Str(<<">">>)
    [] type = TOKEN_LESS -> Str(<<"<">>)
    [] type = TOKEN_EQUAL -> Str(<<"=">>)

\* the nodes of a tree, each before its children, children in field order
RECURSIVE NodesOf(_)
RECURSIVE NodesOfList(_)
NodesOf(n) ==
  IF n.type = NULL.type THEN << >>
  ELSE <<n>> \o
    (CASE n.type = NODE_PROGRAM -> NodesOf(n.block)
       [] n.type = NODE_STATEMENT_BLOCK -> NodesOfList(n.statements)
       [] n.type = NODE_VARIABLE_STATEMENT -> << >>
       [] n.type = NODE_IF_STATEMENT ->
            NodesOf(n.condition) \o NodesOf(n.block) \o NodesOf(n.else_block)
       [] n.type = NODE_WHILE_STATEMENT -> NodesOf(n.condition) \o NodesOf(n.block)
       [] n.type = NODE_ASSIGNMENT_STATEMENT -> NodesOf(n.value)
       [] n.type = NODE_CONDITION -> NodesOf(n.left) \o NodesOf(n.right)
       [] n.type = NODE_EXPRESSION -> NodesOf(n.right))

NodesOfList(l) == IF l = << >> THEN << >> ELSE NodesOf(Head(l)) \o NodesOfList(Tail(l))

NodesOfType(n, type) == SelectSeq(NodesOf(n), LAMBDA m : m.type = type)

\* the positions (from 1) of the tokens of kind `type`, ascending
RECURSIVE PositionsFrom(_, _, _)
PositionsFrom(toks, type, k) ==
  IF k > Len(toks) THEN << >>
  ELSE (IF toks[k].type = type THEN <<k>> ELSE << >>) \o PositionsFrom(toks, type, k + 1)

PositionsOf(toks, type) == PositionsFrom(toks, type, 1)

\* the position of the '}' that closes the block whose '{' is the first at
\* or after position k (0 if there is none)
RECURSIVE ClosingFrom(_, _, _)
ClosingFrom(toks, k, depth) ==
  IF k > Len(toks) THEN 0
  ELSE IF toks[k].type = TOKEN_LBRACE THEN ClosingFrom(toks, k + 1, depth + 1)
  ELSE IF toks[k].type = TOKEN_RBRACE /\ depth = 1 THEN k
  ELSE IF toks[k].type = TOKEN_RBRACE THEN ClosingFrom(toks, k + 1, depth - 1)
  ELSE ClosingFrom(toks, k + 1, depth)

BlockEnd(toks, k) == ClosingFrom(toks, k, 0)

\* the position after the operand/operator chain that starts at position k
RECURSIVE ChainEnd(_, _)
ChainEnd(toks, k) ==
  IF k > Len(toks) \/ ~IsOperand(toks[k]) THEN k
  ELSE IF k + 1 <= Len(toks) /\ IsArithmetic(toks[k + 1]) THEN ChainEnd(toks, k + 2)
  ELSE k + 1

\* the tokens are  IDENTIFIER '=' t1 op1 t2 ... tn EOF
IsAssignmentChain(toks) ==
  /\ Len(toks) >= 4
  /\ Len(toks) % 2 = 0
  /\ toks[1].type = TOKEN_IDENTIFIER
  /\ toks[2].type = TOKEN_EQUAL
  /\ toks[Len(toks)].type = TOKEN_EOF
  /\ \A k \in 3..(Len(toks) - 1) :
       IF k % 2 = 1 THEN IsOperand(toks[k]) ELSE IsArithmetic(toks[k])

\* the node reached from e by following `right` j times
RECURSIVE RightOf(_, _)
RightOf(e, j) == IF j = 0 THEN e ELSE RightOf(e.right, j - 1)

(***************************************************************************)
(* C7. Given the tokens of an assignment whose value is t1 op1 t2 ... tn   *)
(* (each op any of + - * /), parse returns the tree in which the value is  *)
(* Expression(t1, op1, Expression(t2, op2, ...)), nested to the right, the *)
(* innermost Expression with null operator and null right; all four        *)
(* operators are treated alike.                                            *)
(***************************************************************************)
C7_RightNested ==
  (pc \in {"parsed", "exit"} /\ IsAssignmentChain(tokens)) =>
    /\ pc = "parsed"
    /\ ast.type = NODE_PROGRAM
    /\ ast.block.type = NODE_STATEMENT_BLOCK
    /\ Len(ast.block.statements) = 1
    /\ LET a == ast.block.statements[1]
           n == (Len(tokens) - 2) \div 2
       IN /\ a.type = NODE_ASSIGNMENT_STATEMENT
          /\ a.identifier = tokens[1].value.str
          /\ \A j \in 1..n :
               LET e == RightOf(a.value, j - 1) IN
                 /\ e.type = NODE_EXPRESSION
                 /\ e.left_token = 2 * j
                 /\ IF j < n
                      THEN e.operator = Static(OperatorText(tokens[2 * j + 2].type))
                      ELSE e.operator = NullStr /\ e.right = NULL

\* 1 * 2 + 3 was parsed
C7_Witness ==
  /\ pc = "parsed"
  /\ IsAssignmentChain(tokens)
  /\ Len(tokens) = 8
  /\ tokens[4].type = TOKEN_MULTIPLY
  /\ tokens[6].type = TOKEN_PLUS

(***************************************************************************)
(* C8. In every tree parse returns, each IfStatement has a Condition and   *)
(* a then StatementBlock, and its elseBlock is a StatementBlock if an      *)
(* 'else' token directly follows the '}' of its then-block and null        *)
(* otherwise.  (The k-th IfStatement of the tree belongs to the k-th 'if'  *)
(* token.)                                                                 *)
(***************************************************************************)
C8_IfShape ==
  pc = "parsed" =>
    LET ifs == NodesOfType(ast, NODE_IF_STATEMENT)
        at == PositionsOf(tokens, TOKEN_IF)
    IN /\ Len(ifs) = Len(at)
       /\ \A j \in DOMAIN ifs :
            /\ ifs[j].condition.type = NODE_CONDITION
            /\ ifs[j].block.type = NODE_STATEMENT_BLOCK
            /\ IF tokens[BlockEnd(tokens, at[j]) + 1].type = TOKEN_ELSE
                 THEN ifs[j].else_block.type = NODE_STATEMENT_BLOCK
                 ELSE ifs[j].else_block = NULL

\* an if without else inside the else-block of another if
C8_Witness ==
  /\ pc = "parsed"
  /\ LET ifs == NodesOfType(ast, NODE_IF_STATEMENT) IN
       /\ Len(ifs) >= 2
       /\ ifs[1].else_block # NULL
       /\ NodesOfType(ifs[1].else_block, NODE_IF_STATEMENT) # << >>
       /\ ifs[2].else_block = NULL

(***************************************************************************)
(* C9. A ';' that is not followed by a statement is a ParseError: parse    *)
(* returns no tree for a token sequence in which a ';' is followed by a    *)
(* token that cannot start a statement (EOF, '}', ...).                    *)
(***************************************************************************)
C9_SemicolonNeedsStatement ==
  pc = "parsed" =>
    \A k \in 1..(Len(tokens) - 1) :
      tokens[k].type = TOKEN_SEMICOLON => StartsStatement(tokens[k + 1])

\* "statement" was reported at a '}' or EOF that follows a ';'
C9_Witness ==
  /\ ParseErrorIs("statement")
  /\ \E k \in 2..Len(tokens) :
       /\ tokens[k - 1].type = TOKEN_SEMICOLON
       /\ tokens[k].type \in {TOKEN_RBRACE, TOKEN_EOF}
       /\ stderr.line = tokens[k].line
       /\ stderr.column = tokens[k].column
       /\ \A m \in 1..(k - 2) : tokens[m].type # TOKEN_SEMICOLON

(***************************************************************************)
(* C10. An if or while whose parenthesised condition is an expression not  *)
(* followed by '>', '<' or '=' fails with a ParseError: in every tree      *)
(* parse returns, the expression after each "if (" / "while (" is followed *)
(* by a comparator and every Condition node carries that comparator        *)
(* between two Expressions.                                                *)
(***************************************************************************)
C10_ConditionNeedsComparator ==
  pc = "parsed" =>
    LET conditions == NodesOfType(ast, NODE_CONDITION)
        at == PositionsOf(tokens, TOKEN_IF) \o PositionsOf(tokens, TOKEN_WHILE)
    IN /\ Len(conditions) = Len(at)
       /\ \A j \in DOMAIN at : IsComparator(tokens[ChainEnd(tokens, at[j] + 2)])
       /\ \A j \in DOMAIN conditions :
            /\ conditions[j].operator \in
                 {Static(OperatorText(t)) : t \in {TOKEN_GREATER, TOKEN_LESS, TOKEN_EQUAL}}
            /\ \E k \in DOMAIN at :
                 conditions[j].operator
                   = Static(OperatorText(tokens[ChainEnd(tokens, at[k] + 2)].type))
            /\ conditions[j].left.type = NODE_EXPRESSION
            /\ conditions[j].right.type = NODE_EXPRESSION

\* "condition" was reported at the ')' of  if ( x )
C10_Witness ==
  /\ ParseErrorIs("condition")
  /\ Len(tokens) >= 4
  /\ tokens[1].type = TOKEN_IF
  /\ tokens[2].type = TOKEN_LPAREN
  /\ IsOperand(tokens[3])
  /\ tokens[4].type = TOKEN_RPAREN
  /\ stderr.column = tokens[4].column

(***************************************************************************)
(* Reading a document: its items are the strings (with their quotes and    *)
(* escapes, as written), the numbers, the word null and the punctuation    *)
(* characters, white space between them dropped.  The document is read     *)
(* one character at a time, in two halves so that the evaluation stays     *)
(* shallow.                                                                *)
(***************************************************************************)
Punctuation == {Ord("{"), Ord("}"), Ord("["), Ord("]"), Ord(","), Ord(":")}
Blank == {Ord(" "), Ord("\n"), Ord("\t"), 13}

ReadStart == [mode |-> "out", cur |-> << >>, items |-> << >>]

ReadOutside(items, c) ==
  IF c \in Blank THEN [mode |-> "out", cur |-> << >>, items |-> items]
  ELSE IF c = Ord("\"") THEN [mode |-> "str", cur |-> <<c>>, items |-> items]
  ELSE IF c \in Punctuation THEN [mode |-> "out", cur |-> << >>, items |-> Append(items, <<c>>)]
  ELSE [mode |-> "word", cur |-> <<c>>, items |-> items]

ReadCharacter(r, c) ==
  CASE r.mode = "out" -> ReadOutside(r.items, c)
    [] r.mode = "word" ->
         IF c \in Blank \cup Punctuation \cup {Ord("\"")}
           THEN ReadOutside(Append(r.items, r.cur), c)
           ELSE [r EXCEPT !.cur = Append(r.cur, c)]
    [] r.mode = "str" ->
         IF c = Ord("\\") THEN [r EXCEPT !.mode = "esc", !.cur = Append(r.cur, c)]
         ELSE IF c = Ord("\"")
           THEN [mode |-> "out", cur |-> << >>, items |-> Append(r.items, Append(r.cur, c))]
         ELSE [r EXCEPT !.cur = Append(r.cur, c)]
    [] r.mode = "esc" -> [r EXCEPT !.mode = "str", !.cur = Append(r.cur, c)]

RECURSIVE Read(_, _, _, _)
ReadRest(r, doc, lo, hi) == IF r.mode # "" THEN Read(r, doc, lo, hi) ELSE r

Read(r, doc, lo, hi) ==
  IF lo > hi THEN r
  ELSE IF lo = hi THEN ReadCharacter(r, doc[lo])
  ELSE ReadRest(Read(r, doc, lo, (lo + hi) \div 2), doc, (lo + hi) \div 2 + 1, hi)

ReadEnd(r) == IF r.mode = "out" THEN r.items ELSE Append(r.items, r.cur)

Items(doc) == ReadEnd(Read(ReadStart, doc, 1, Len(doc)))

\* the document each form would produce for the tree of the state
Streamed == write_ast_to_json(ast, 0, tokens)
Buffered == Flat(serialize_ast(ast, tokens))

(***************************************************************************)
(* Output                                                                  *)
(***************************************************************************)
\* no output file, and the buffer of the embeddable form empty
NothingWritten ==
  /\ ast_file = NoFile
  /\ json_result = NullStr
  /\ json_length = 0

\* C11: an input whose lexing or parsing fails leaves no output (no output
\* file, an empty result buffer); output exists only once tokenize and parse
\* have both returned; and after the fatal error no step is taken any more.
C11_FailFast ==
  /\ [](pc = "exit" => NothingWritten)
  /\ [](~NothingWritten => pc \in {"written", "returned"} /\ ast # NULL)
  /\ [][pc # "exit"]_vars

\* a parse error in a call that follows a call which returned a document
C11_Witness ==
  /\ pc = "exit"
  /\ calls = 2
  /\ stderr.fmt = ParseErrorFormat
  /\ Len(tokens) > 1

\* C12: for the tree of a run the document of the streaming serializer and
\* the document of the buffered serializer have the same items in the same
\* order (same nesting, keys and values, string values included), white
\* space outside strings aside.
C12_SameDocument ==
  /\ pc = "written" => Items(ast_file.str) = Items(Buffered)
  /\ pc = "returned" => Items(Contents(json_result, json_length)) = Items(Streamed)

\* the string values a tree holds: identifiers, operators, operand texts
StringValues(n, toks) ==
  LET nodes == NodesOf(n)
  IN {nodes[k].identifier :
        k \in {j \in DOMAIN nodes : nodes[j].type \in {NODE_VARIABLE_STATEMENT,
                                                       NODE_ASSIGNMENT_STATEMENT}}}
     \cup {nodes[k].operator.str :
        k \in {j \in DOMAIN nodes : /\ nodes[j].type \in {NODE_CONDITION, NODE_EXPRESSION}
                                    /\ nodes[j].operator # NullStr}}
     \cup {toks[nodes[k].left_token + 1].value.str :
        k \in {j \in DOMAIN nodes : nodes[j].type = NODE_EXPRESSION}}

\* a string value escaped completely
RECURSIVE EscapedCompletely(_)
EscapedCompletely(str) ==
  IF str = << >> THEN << >>
  ELSE LET c == Head(str)
       IN (CASE c = Ord("\"") -> Str(<<"\\", "\"">>)
             [] c = Ord("\\") -> Str(<<"\\", "\\">>)
             [] c = 10 -> Str(<<"\\", "n">>)
             [] c = 9 -> Str(<<"\\", "t">>)
             [] c = 13 -> Str(<<"\\", "r">>)
             [] c = 8 -> Str(<<"\\", "b">>)
             [] c = 12 -> Str(<<"\\", "f">>)
             [] OTHER -> IF c < 32
                           THEN Str(<<"\\", "u", "0", "0">>)
                                \o <<HexDigit(c \div 16), HexDigit(c % 16)>>
                           ELSE <<c>>)
          \o EscapedCompletely(Tail(str))

QuotedCompletely(str) == <<Ord("\"")>> \o EscapedCompletely(str) \o <<Ord("\"")>>

\* no control character other than the line feeds of the layout
NoRawControl(doc) == \A k \in DOMAIN doc : doc[k] >= 32 \/ doc[k] = 10

\* C13: in both forms every string value of the tree is written escaped
\* completely (quote, backslash, \n \t \r \b \f, \u escapes below 0x20), so
\* the document holds no raw control character.
C13_EscapedCompletely ==
  /\ pc = "written" =>
       /\ NoRawControl(ast_file.str)
       /\ \A v \in StringValues(ast, tokens) : write_json_string(v) = QuotedCompletely(v)
  /\ pc = "returned" =>
       /\ NoRawControl(Contents(json_result, json_length))
       /\ \A v \in StringValues(ast, tokens) :
            Flat(json_append_escaped_string(v)) = QuotedCompletely(v)

(***************************************************************************)
(* The documented shape of a document, as items: Open stands for one item  *)
(* the shape leaves open (a string value, a number of a token).            *)
(***************************************************************************)
Open == << >>

KeyItem(name) == Str(<<"\"">>) \o Str(name) \o Str(<<"\"">>)
Member(name) == <<KeyItem(name), Str(<<":">>)>>
Comma == <<Str(<<",">>)>>

\* the ordinal of each variant
Ordinal(type) ==
  CASE type = NODE_PROGRAM -> 0
    [] type = NODE_STATEMENT_BLOCK -> 1
    [] type = NODE_VARIABLE_STATEMENT -> 2
    [] type = NODE_IF_STATEMENT -> 3
    [] type = NODE_WHILE_STATEMENT -> 4
    [] type = NODE_ASSIGNMENT_STATEMENT -> 5
    [] type = NODE_CONDITION -> 6
    [] type = NODE_EXPRESSION -> 7

\* { type: _, value: _, line: _, column: _ }
TokenShape ==
  <<Str(<<"{">>)>> \o Member(<<"t", "y", "p", "e">>) \o <<Open>> \o Comma
  \o Member(<<"v", "a", "l", "u", "e">>) \o <<Open>> \o Comma
  \o Member(<<"l", "i", "n", "e">>) \o <<Open>> \o Comma
  \o Member(<<"c", "o", "l", "u", "m", "n">>) \o <<Open>> \o <<Str(<<"}">>)>>

RECURSIVE Shape(_)
RECURSIVE ShapeOfList(_, _)
ShapeOfList(l, k) ==
  IF k > Len(l) THEN << >>
  ELSE Shape(l[k]) \o (IF k < Len(l) THEN Comma ELSE << >>) \o ShapeOfList(l, k + 1)

DataShape(n) ==
  CASE n.type = NODE_PROGRAM -> Member(<<"b", "l", "o", "c", "k">>) \o Shape(n.block)
    [] n.type = NODE_STATEMENT_BLOCK ->
         Member(<<"s", "t", "a", "t", "e", "m", "e", "n", "t", "s">>)
         \o <<Str(<<"[">>)>> \o ShapeOfList(n.statements, 1) \o <<Str(<<"]">>)>>
    [] n.type = NODE_VARIABLE_STATEMENT ->
         Member(<<"i", "d", "e", "n", "t", "i", "f", "i", "e", "r">>) \o <<Open>>
    [] n.type = NODE_IF_STATEMENT ->
         Member(<<"c", "o", "n", "d", "i", "t", "i", "o", "n">>) \o Shape(n.condition)
         \o Comma \o Member(<<"b", "l", "o", "c", "k">>) \o Shape(n.block)
         \o Comma \o Member(<<"e", "l", "s", "e", "B", "l", "o", "c", "k">>)
         \o Shape(n.else_block)
    [] n.type = NODE_WHILE_STATEMENT ->
         Member(<<"c", "o", "n", "d", "i", "t", "i", "o", "n">>) \o Shape(n.condition)
         \o Comma \o Member(<<"b", "l", "o", "c", "k">>) \o Shape(n.block)
    [] n.type = NODE_ASSIGNMENT_STATEMENT ->
         Member(<<"i", "d", "e", "n", "t", "i", "f", "i", "e", "r">>) \o <<Open>>
         \o Comma \o Member(<<"v", "a", "l", "u", "e">>) \o Shape(n.value)
    [] n.type = NODE_CONDITION ->
         Member(<<"l", "e", "f", "t">>) \o Shape(n.left)
         \o Comma \o Member(<<"o", "p", "e", "r", "a", "t", "o", "r">>) \o <<Open>>
         \o Comma \o Member(<<"r", "i", "g", "h", "t">>) \o Shape(n.right)
    [] n.type = NODE_EXPRESSION ->
         Member(<<"l", "e", "f", "t", "T", "o", "k", "e", "n">>) \o TokenShape
         \o Comma \o Member(<<"o", "p", "e", "r", "a", "t", "o", "r">>) \o <<Open>>
         \o Comma \o Member(<<"r", "i", "g", "h", "t">>) \o Shape(n.right)

Shape(n) ==
  IF n = NULL THEN <<NullText>>
  ELSE <<Str(<<"{">>)>> \o Member(<<"t", "y", "p", "e">>) \o <<Decimal(Ordinal(n.type))>>
       \o Comma \o Member(<<"d", "a", "t", "a">>) \o <<Str(<<"{">>)>>
       \o DataShape(n) \o <<Str(<<"}">>), Str(<<"}">>)>>

HasShape(items, shape) ==
  /\ Len(items) = Len(shape)
  /\ \A k \in DOMAIN shape : shape[k] = Open \/ items[k] = shape[k]

\* the document of the finished run
Document ==
  IF pc = "written" THEN ast_file.str ELSE Contents(json_result, json_length)

Finished == pc \in {"written", "returned"}

\* the positions of the keys of the items: the items before a colon
ColonItem == Str(<<":">>)
Keys(items) == {k \in 1..(Len(items) - 2) : items[k + 1] = ColonItem}

\* how often `name` is a key in the items, and how often with the value null
KeyCount(items, keys, name) ==
  Cardinality(UNION {{k \in keys : items[k] = key} : key \in {KeyItem(name)}})
NullCount(items, keys, name) ==
  Cardinality(UNION {{k \in keys : items[k] = key /\ items[k + 2] = NullText} :
                       key \in {KeyItem(name)}})

NodeCount(nodes, types) == Cardinality({k \in DOMAIN nodes : nodes[k].type \in types})

FieldsKept(items, keys, nodes) ==
  /\ KeyCount(items, keys, <<"b", "l", "o", "c", "k">>) =
       NodeCount(nodes, {NODE_PROGRAM, NODE_IF_STATEMENT, NODE_WHILE_STATEMENT})
  /\ KeyCount(items, keys, <<"s", "t", "a", "t", "e", "m", "e", "n", "t", "s">>) =
       NodeCount(nodes, {NODE_STATEMENT_BLOCK})
  /\ KeyCount(items, keys, <<"i", "d", "e", "n", "t", "i", "f", "i", "e", "r">>) =
       NodeCount(nodes, {NODE_VARIABLE_STATEMENT, NODE_ASSIGNMENT_STATEMENT})
  /\ KeyCount(items, keys, <<"c", "o", "n", "d", "i", "t", "i", "o", "n">>) =
       NodeCount(nodes, {NODE_IF_STATEMENT, NODE_WHILE_STATEMENT})
  /\ KeyCount(items, keys, <<"e", "l", "s", "e", "B", "l", "o", "c", "k">>) =
       NodeCount(nodes, {NODE_IF_STATEMENT})
  /\ KeyCount(items, keys, <<"v", "a", "l", "u", "e">>) =
       NodeCount(nodes, {NODE_ASSIGNMENT_STATEMENT, NODE_EXPRESSION})
  /\ KeyCount(items, keys, <<"l", "e", "f", "t">>) = NodeCount(nodes, {NODE_CONDITION})
  /\ KeyCount(items, keys, <<"l", "e", "f", "t", "T", "o", "k", "e", "n">>) =
       NodeCount(nodes, {NODE_EXPRESSION})
  /\ KeyCount(items, keys, <<"o", "p", "e", "r", "a", "t", "o", "r">>) =
       NodeCount(nodes, {NODE_CONDITION, NODE_EXPRESSION})
  /\ KeyCount(items, keys, <<"r", "i", "g", "h", "t">>) =
       NodeCount(nodes, {NODE_CONDITION, NODE_EXPRESSION})
  /\ NullCount(items, keys, <<"e", "l", "s", "e", "B", "l", "o", "c", "k">>) =
       Len(SelectSeq(nodes,
                     LAMBDA n : n.type = NODE_IF_STATEMENT /\ n.else_block = NULL))
  /\ NullCount(items, keys, <<"o", "p", "e", "r", "a", "t", "o", "r">>) =
       Len(SelectSeq(nodes,
                     LAMBDA n : n.type = NODE_EXPRESSION /\ n.operator = NullStr))
  /\ NullCount(items, keys, <<"r", "i", "g", "h", "t">>) =
       Len(SelectSeq(nodes,
                     LAMBDA n : n.type = NODE_EXPRESSION /\ n.right = NULL))

\* C14: the document of either form holds every field of every node: each
\* key occurs once per node that has the field, and an absent elseBlock,
\* operator or right is there as the key with the value null.
C14_NoFieldLost ==
  Finished => \A items \in {Items(Document)}, nodes \in {NodesOf(ast)} :
                \A keys \in {Keys(items)} : FieldsKept(items, keys, nodes)

\* a document of the buffered form for an if without else
C14_Witness ==
  /\ pc = "returned"
  /\ \E k \in DOMAIN NodesOf(ast) :
       NodesOf(ast)[k].type = NODE_IF_STATEMENT /\ NodesOf(ast)[k].else_block = NULL
  /\ \E k \in DOMAIN NodesOf(ast) :
       NodesOf(ast)[k].type = NODE_EXPRESSION /\ NodesOf(ast)[k].right = NULL

\* C15: the document of either form is, item for item, the documented shape
\* of the tree: each node an object of "type" (the ordinal of its variant)
\* then "data" with the fields of the variant in their order; the root is
\* the Program, type 0, with the one field block.
C15_DocumentShape ==
  Finished =>
    /\ ast.type = NODE_PROGRAM
    /\ \A items \in {Items(Document)} :
         /\ HasShape(items, Shape(ast))
         /\ SubSeq(items, 1, 9) =
              <<Str(<<"{">>), KeyItem(<<"t", "y", "p", "e">>), Str(<<":">>), Str(<<"0">>),
                Str(<<",">>), KeyItem(<<"d", "a", "t", "a">>), Str(<<":">>), Str(<<"{">>),
                KeyItem(<<"b", "l", "o", "c", "k">>)>>

\* a document of the streaming form for a tree with nodes of all eight variants
C15_Witness ==
  /\ pc = "written"
  /\ {NodesOf(ast)[k].type : k \in DOMAIN NodesOf(ast)} = 0..7

\* the positions (from 0) of the tokens consumed as operands: the NUMBER,
\* STRING and IDENTIFIER tokens other than the name after 'var' and the
\* target that starts an assignment
OperandPositions(toks) ==
  SelectSeq([k \in 1..Len(toks) |-> k - 1],
            LAMBDA j :
              /\ IsOperand(toks[j + 1])
              /\ j > 0
              /\ toks[j].type \notin {TOKEN_VAR, TOKEN_SEMICOLON, TOKEN_LBRACE})

\* the items of the object written for a token
TokenItems(token, value) ==
  <<Str(<<"{">>)>> \o Member(<<"t", "y", "p", "e">>) \o <<Decimal(token.type)>> \o Comma
  \o Member(<<"v", "a", "l", "u", "e">>) \o <<value>> \o Comma
  \o Member(<<"l", "i", "n", "e">>) \o <<Decimal(token.line)>> \o Comma
  \o Member(<<"c", "o", "l", "u", "m", "n">>) \o <<Decimal(token.column)>>
  \o <<Str(<<"}">>)>>

\* the positions of the key leftToken, ascending
LeftTokenKeys(items) ==
  SelectSeq([k \in 1..Len(items) |-> k],
            LAMBDA k : /\ k + 18 <= Len(items)
                       /\ items[k] = KeyItem(<<"l", "e", "f", "t", "T", "o", "k", "e", "n">>)
                       /\ items[k + 1] = Str(<<":">>))

LeftTokensWritten(items, expressions) ==
  \A keys \in {LeftTokenKeys(items)} :
     /\ Len(keys) = Len(expressions)
     /\ \A j \in DOMAIN expressions :
          LET token == tokens[expressions[j].left_token + 1]
              object == SubSeq(items, keys[j] + 2, keys[j] + 18)
          IN /\ object = TokenItems(token, object[8])
             /\ object[8][1] = Ord("\"")
             /\ object[4] \in {Str(<<"1", "7">>), Str(<<"1", "8">>), Str(<<"1", "9">>)}

\* C16: the leftToken of the j-th Expression (in document order) is the
\* j-th token consumed as an operand, a NUMBER, STRING or IDENTIFIER, and
\* it is written as { type, value, line, column }, type being that token's
\* ordinal (17, 18 or 19), line and column its recorded position.
C16_LeftToken ==
  Finished =>
    \A items \in {Items(Document)}, expressions \in {NodesOfType(ast, NODE_EXPRESSION)} :
      /\ [j \in DOMAIN expressions |-> expressions[j].left_token] = OperandPositions(tokens)
      /\ LeftTokensWritten(items, expressions)

\* a document with a NUMBER, a STRING and an IDENTIFIER as operands
C16_Witness ==
  /\ Finished
  /\ {tokens[NodesOfType(ast, NODE_EXPRESSION)[j].left_token + 1].type :
        j \in DOMAIN NodesOfType(ast, NODE_EXPRESSION)} =
     {TOKEN_NUMBER, TOKEN_STRING, TOKEN_IDENTIFIER}

\* C17: in a run of calls of generateAst the buffer is empty from the
\* entry of a call until its serialization, and the document a call returns
\* is the serialization of the tree of its own input, with nothing of the
\* calls before it.
C17_BufferFresh ==
  /\ pc \in {"tokenize", "parse", "parsed"} =>
       json_result = NullStr /\ json_length = 0 /\ json_capacity = 0
  /\ pc = "returned" => Contents(json_result, json_length) = Buffered

\* the second call of a run has returned
C17_Witness ==
  /\ pc = "returned"
  /\ calls = 2
  /\ json_length > 0

\* C18: calls of generateAst whose steps interleave are not safe: a call
\* can return a document that is not the serialization of its own tree
\* (bytes of the other call in it, or bytes of its own lost to the reset
\* of the other call); this happens only to a call that another call
\* disturbed between its entry and its return, never to calls made one
\* after the other.
C18_UnsafeWhenInterleaved ==
  \A t \in Threads :
    call.of[t].pc = "returned" /\ call.of[t].result # call.of[t].own
      => call.of[t].disturbed

\* a call that returned a document other than its own, the other call
\* having reset the buffer while this one was appending
C18_Witness ==
  \E t \in Threads :
    /\ call.of[t].pc = "returned"
    /\ call.of[t].result # call.of[t].own
    /\ Len(call.of[t].result) < Len(call.of[t].own)

(***************************************************************************)
(* Error reports                                                           *)
(***************************************************************************)
LexErrorFormat == "Unexpected character: %c"

\* the characters tokenize has a rule for in the Searching state
HasLexicalRule(c) ==
  c \in {Ord(" "), Ord("\t"), Ord("\n"), Ord("("), Ord(")"), Ord("{"), Ord("}"),
         Ord(";"), Ord("+"), Ord("-"), Ord("*"), Ord("/"), Ord(">"), Ord("<"),
         Ord("="), Ord("\""), Ord("_")}
  \/ (Ord("0") <= c /\ c <= Ord("9"))
  \/ (Ord("a") <= c /\ c <= Ord("z"))
  \/ (Ord("A") <= c /\ c <= Ord("Z"))

\* C19: a character without a lexical rule, met in the Searching state,
\* aborts the run, and the report carries that character together with
\* the current line and column.
C19_LexErrorReport ==
  pc = "exit" /\ stderr.fmt = LexErrorFormat =>
    /\ i < Len(input)
    /\ state = STATE_SEARCHING
    /\ ~HasLexicalRule(input[i + 1])
    /\ stderr.c = input[i + 1]
    /\ "line" \in DOMAIN stderr
    /\ "column" \in DOMAIN stderr
    /\ stderr.line = current_line
    /\ stderr.column = current_column

\* the words parser_error is called with
ErrorTags == {"expect", "expression", "condition", "statement", "program"}

\* a token of the type, for the end of a sequence that completes a prefix
Filler(type) ==
  [type |-> type, value |-> Static(Str(<<"_">>)), line |-> 0, column |-> 0]

Fillers(types) == [k \in DOMAIN types |-> Filler(types[k])]

\* the ends of one statement of each kind
StatementEnds ==
  LET forms == { <<TOKEN_VAR, TOKEN_IDENTIFIER>>,
                 <<TOKEN_IDENTIFIER, TOKEN_EQUAL, TOKEN_IDENTIFIER>>,
                 <<TOKEN_IF, TOKEN_LPAREN, TOKEN_IDENTIFIER, TOKEN_GREATER,
                   TOKEN_IDENTIFIER, TOKEN_RPAREN, TOKEN_LBRACE, TOKEN_VAR,
                   TOKEN_IDENTIFIER, TOKEN_RBRACE>> }
  IN { SubSeq(f, k, Len(f)) : f \in forms, k \in 1..11 }

\* the token sequences tried as the rest of a program: the end of the
\* statement under way, then the closing braces of the blocks under way
Completions ==
  { Fillers(e \o [k \in 1..d |-> TOKEN_RBRACE] \o <<TOKEN_EOF>>) :
      e \in StatementEnds, d \in 0..(MaxDepth + 1) }

\* the token sequence is a program
Parses(toks) == ~Exited(parse(toks).p)

\* C20: a ParseError is raised at the first token that cannot satisfy the
\* rule being applied: the report carries one of the five tags and the
\* recorded line and column of the token the parser stands at, the tokens
\* before it were consumed in order (they begin some program), and that
\* token was not (no program begins with the tokens up to and including
\* it, whatever follows among the completions tried).
C20_ErrorAtFirstBadToken ==
  pc = "exit" /\ stderr.fmt = ParseErrorFormat =>
    \A at \in {parse(tokens).p.current_token_index + 1} :
      /\ stderr.message \in ErrorTags
      /\ at \in 1..Len(tokens)
      /\ stderr.line = tokens[at].line
      /\ stderr.column = tokens[at].column
      /\ \E rest \in Completions : Parses(SubSeq(tokens, 1, at - 1) \o rest)
      /\ \A rest \in Completions : ~Parses(SubSeq(tokens, 1, at) \o rest)

\* a ParseError at a token after the first, on another line than the
\* token before it
C20_Witness ==
  /\ pc = "exit"
  /\ stderr.fmt = ParseErrorFormat
  /\ stderr.message \in ErrorTags
  /\ \E at \in 2..Len(tokens) :
       /\ at = parse(tokens).p.current_token_index + 1
       /\ stderr.line = tokens[at].line
       /\ stderr.column = tokens[at].column
       /\ tokens[at - 1].line # tokens[at].line

(***************************************************************************)
(* Invariants of the trees parse returns                                   *)
(***************************************************************************)
ArithmeticOperators ==
  {Static(Str(<<"+">>)), Static(Str(<<"-">>)), Static(Str(<<"*">>)),
   Static(Str(<<"/">>))}

ComparisonOperators ==
  {Static(Str(<<">">>)), Static(Str(<<"<">>)), Static(Str(<<"=">>))}

\* C21: in every tree parse returns, an Expression node has a right operand
\* if and only if it has an operator, and the operator, when there is one,
\* is one of + - * /.
C21_RightIffOperator ==
  ast # NULL =>
    \A nodes \in {NodesOfType(ast, NODE_EXPRESSION)} :
      \A j \in DOMAIN nodes :
        /\ (nodes[j].right # NULL) <=> (nodes[j].operator # NullStr)
        /\ nodes[j].operator # NullStr => nodes[j].operator \in ArithmeticOperators
        /\ nodes[j].right # NULL => nodes[j].right.type = NODE_EXPRESSION

\* a tree with an Expression that has '/' and a right operand, whose right
\* operand has neither
C21_Witness ==
  /\ pc = "parsed"
  /\ \E j \in DOMAIN NodesOfType(ast, NODE_EXPRESSION) :
       /\ NodesOfType(ast, NODE_EXPRESSION)[j].operator = Static(Str(<<"/">>))
       /\ NodesOfType(ast, NODE_EXPRESSION)[j].right # NULL
       /\ NodesOfType(ast, NODE_EXPRESSION)[j].right.operator = NullStr
       /\ NodesOfType(ast, NODE_EXPRESSION)[j].right.right = NULL

\* the statements of a token sequence in the order they start in it, each
\* with the kind of its node and the name it declares or assigns: a 'var',
\* 'if' or 'while' token starts one, and so does an IDENTIFIER at the very
\* start or right after ';' or '{'
RECURSIVE StatementHeads(_, _)
StatementHeads(toks, k) ==
  IF k > Len(toks) THEN << >>
  ELSE (IF toks[k].type = TOKEN_VAR
          THEN <<[type |-> NODE_VARIABLE_STATEMENT,
                  identifier |-> toks[k + 1].value.str]>>
        ELSE IF toks[k].type = TOKEN_IF THEN <<[type |-> NODE_IF_STATEMENT]>>
        ELSE IF toks[k].type = TOKEN_WHILE THEN <<[type |-> NODE_WHILE_STATEMENT]>>
        ELSE IF /\ toks[k].type = TOKEN_IDENTIFIER
                /\ (k = 1 \/ toks[k - 1].type \in {TOKEN_SEMICOLON, TOKEN_LBRACE})
          THEN <<[type |-> NODE_ASSIGNMENT_STATEMENT,
                  identifier |-> toks[k].value.str]>>
        ELSE << >>) \o StatementHeads(toks, k + 1)

StatementTypes ==
  {NODE_VARIABLE_STATEMENT, NODE_IF_STATEMENT, NODE_WHILE_STATEMENT,
   NODE_ASSIGNMENT_STATEMENT}

\* kind and name of a statement node
HeadOf(n) ==
  IF n.type \in {NODE_VARIABLE_STATEMENT, NODE_ASSIGNMENT_STATEMENT}
    THEN [type |-> n.type, identifier |-> n.identifier]
    ELSE [type |-> n.type]

\* the statements of a tree, each before the statements of its blocks,
\* then-block before else-block, the statements of a block in list order
StatementsOfTree(nodes) ==
  [j \in DOMAIN SelectSeq(nodes, LAMBDA m : m.type \in StatementTypes) |->
     HeadOf(SelectSeq(nodes, LAMBDA m : m.type \in StatementTypes)[j])]

\* C22: in every tree parse returns, every StatementBlock holds at least
\* one statement, and the statements are in source order: read block by
\* block they are the statements of the token sequence in the order they
\* start in it.
C22_BlocksNonEmptyInOrder ==
  ast # NULL =>
    \A nodes \in {NodesOf(ast)} :
      /\ \A j \in DOMAIN nodes :
           nodes[j].type = NODE_STATEMENT_BLOCK => Len(nodes[j].statements) >= 1
      /\ \A j \in DOMAIN nodes :
           /\ nodes[j].type = NODE_PROGRAM => nodes[j].block.type = NODE_STATEMENT_BLOCK
           /\ nodes[j].type \in {NODE_IF_STATEMENT, NODE_WHILE_STATEMENT}
                => nodes[j].block.type = NODE_STATEMENT_BLOCK
           /\ nodes[j].type = NODE_IF_STATEMENT
                => nodes[j].else_block.type \in {NULL.type, NODE_STATEMENT_BLOCK}
      /\ StatementsOfTree(nodes) = StatementHeads(tokens, 1)

\* a block of two different statements, and a block inside a block
C22_Witness ==
  /\ pc = "parsed"
  /\ Len(ast.block.statements) >= 2
  /\ HeadOf(ast.block.statements[1]) # HeadOf(ast.block.statements[2])
  /\ \E j \in DOMAIN ast.block.statements :
       /\ ast.block.statements[j].type \in {NODE_IF_STATEMENT, NODE_WHILE_STATEMENT}
       /\ Len(ast.block.statements[j].block.statements) >= 1

\* C23: in every tree parse returns, the condition of every IfStatement and
\* WhileStatement is a Condition node (type 6) whose operator is one of
\* > < = and whose left and right are both Expression nodes.
C23_ConditionIsComparison ==
  ast # NULL =>
    \A nodes \in {NodesOf(ast)} :
      \A j \in DOMAIN nodes :
        nodes[j].type \in {NODE_IF_STATEMENT, NODE_WHILE_STATEMENT} =>
          /\ nodes[j].condition.type = NODE_CONDITION
          /\ NODE_CONDITION = 6
          /\ nodes[j].condition.operator \in ComparisonOperators
          /\ nodes[j].condition.left # NULL
          /\ nodes[j].condition.left.type = NODE_EXPRESSION
          /\ nodes[j].condition.right # NULL
          /\ nodes[j].condition.right.type = NODE_EXPRESSION

\* a tree with an if and a while, each with its Condition
C23_Witness ==
  /\ pc = "parsed"
  /\ \E j, k \in DOMAIN NodesOf(ast) :
       /\ NodesOf(ast)[j].type = NODE_IF_STATEMENT
       /\ NodesOf(ast)[k].type = NODE_WHILE_STATEMENT
       /\ NodesOf(ast)[j].condition.type = NODE_CONDITION
       /\ NodesOf(ast)[k].condition.type = NODE_CONDITION
       /\ NodesOf(ast)[k].condition.right.type = NODE_EXPRESSION

(***************************************************************************)
(* Indentation of a document.  The scan keeps the number of objects and    *)
(* arrays open (depth), whether it is inside a string value, and the       *)
(* spaces counted since the start of the line; at the first other          *)
(* character of a line the count is compared with two per level, a closing *)
(* bracket belonging to the level of its opening line.                     *)
(***************************************************************************)
ScanStart == [mode |-> "out", depth |-> 0, start |-> TRUE, spaces |-> 0, ok |-> TRUE]

IsOpening(c) == c \in {Ord("{"), Ord("[")}
IsClosing(c) == c \in {Ord("}"), Ord("]")}

\* a character outside string values, the indent of its line already seen
ScanInLine(r, c) ==
  IF IsOpening(c) THEN [r EXCEPT !.depth = @ + 1]
  ELSE IF IsClosing(c) THEN [r EXCEPT !.depth = @ - 1]
  ELSE IF c = Ord("\"") THEN [r EXCEPT !.mode = "str"]
  ELSE IF c = Ord("\n") THEN [r EXCEPT !.start = TRUE, !.spaces = 0]
  ELSE r

ScanCharacter(r, c) ==
  IF r.mode = "esc" THEN [r EXCEPT !.mode = "str"]
  ELSE IF r.mode = "str"
    THEN IF c = Ord("\\") THEN [r EXCEPT !.mode = "esc"]
         ELSE IF c = Ord("\"") THEN [r EXCEPT !.mode = "out"]
         ELSE r
  ELSE IF r.start
    THEN IF c = Ord(" ") THEN [r EXCEPT !.spaces = @ + 1]
         ELSE IF c = Ord("\n") THEN [r EXCEPT !.spaces = 0]
         ELSE ScanInLine([r EXCEPT !.start = FALSE,
                                   !.ok = @ /\ r.spaces
                                            = 2 * (IF IsClosing(c) THEN r.depth - 1
                                                   ELSE r.depth)],
                         c)
  ELSE ScanInLine(r, c)

RECURSIVE Scan(_, _, _, _)
ScanRest(r, doc, lo, hi) == IF r.spaces >= 0 THEN Scan(r, doc, lo, hi) ELSE r
Scan(r, doc, lo, hi) ==
  IF lo > hi THEN r
  ELSE IF lo = hi THEN ScanCharacter(r, doc[lo])
  ELSE ScanRest(Scan(r, doc, lo, (lo + hi) \div 2), doc, (lo + hi) \div 2 + 1, hi)

\* every line begins with two spaces per enclosing object or array
Indented(doc) ==
  \A r \in {Scan(ScanStart, doc, 1, Len(doc))} :
    r.ok /\ r.depth = 0 /\ r.mode = "out"

\* C24: in both forms the document is indented by nesting level: every
\* line inside d enclosing objects or arrays begins with exactly 2*d
\* spaces.  As stated, this fails for the buffered form, whose strings
\* carry a fixed indent of two or four spaces whatever the level.
C24_IndentedByLevel ==
  /\ pc = "written" => Indented(ast_file.str)
  /\ pc = "returned" => Indented(Contents(json_result, json_length))

(***************************************************************************)
(* The tokens a tree accounts for: those of its own form (keyword, names,  *)
(* parentheses, braces, operator, the ';' between statements) and those of *)
(* its children.                                                           *)
(***************************************************************************)
RECURSIVE Spanned(_)
RECURSIVE SpannedList(_)
Spanned(n) ==
  CASE n.type = NULL.type -> 0
    [] n.type = NODE_PROGRAM -> Spanned(n.block)
    [] n.type = NODE_STATEMENT_BLOCK ->
         SpannedList(n.statements) + (Len(n.statements) - 1)
    [] n.type = NODE_VARIABLE_STATEMENT -> 2
    [] n.type = NODE_IF_STATEMENT ->
         5 + Spanned(n.condition) + Spanned(n.block)
           + (IF n.else_block = NULL THEN 0 ELSE 3 + Spanned(n.else_block))
    [] n.type = NODE_WHILE_STATEMENT -> 5 + Spanned(n.condition) + Spanned(n.block)
    [] n.type = NODE_ASSIGNMENT_STATEMENT -> 2 + Spanned(n.value)
    [] n.type = NODE_CONDITION -> Spanned(n.left) + 1 + Spanned(n.right)
    [] n.type = NODE_EXPRESSION ->
         1 + (IF n.operator = NullStr THEN 0 ELSE 1 + Spanned(n.right))

SpannedList(l) == IF l = << >> THEN 0 ELSE Spanned(Head(l)) + SpannedList(Tail(l))

\* the token parse stopped at
ErrorAt == parse(tokens).p.current_token_index + 1

\* C25: parse returns a tree only if the token right after the top-level
\* statement block is EOF, every token before it being accounted for by
\* the tree; a token left over after a complete program is a ParseError
\* tagged 'program', and that tag is given to nothing else.
C25_NoLeftover ==
  /\ ast # NULL =>
       /\ tokens[Len(tokens)].type = TOKEN_EOF
       /\ Spanned(ast) = Len(tokens) - 1
  /\ pc = "exit" /\ stderr.fmt = ParseErrorFormat =>
       \A at \in {ErrorAt} :
         stderr.message = "program"
           <=> /\ tokens[at].type # TOKEN_EOF
               /\ Parses(Append(SubSeq(tokens, 1, at - 1), Filler(TOKEN_EOF)))

\* 'program' reported at the start of a second statement that follows a
\* closing '}' without ';'
C25_Witness ==
  /\ ParseErrorIs("program")
  /\ ErrorAt > 1
  /\ tokens[ErrorAt - 1].type = TOKEN_RBRACE
  /\ StartsStatement(tokens[ErrorAt])
  /\ stderr.line = tokens[ErrorAt].line
  /\ stderr.column = tokens[ErrorAt].column

\* a statement starts at position k of the token sequence: at its start,
\* after a ';' or after a '{'
StatementStart(toks, k) ==
  k = 1 \/ (k > 1 /\ toks[k - 1].type \in {TOKEN_SEMICOLON, TOKEN_LBRACE})

\* C26: statement dispatch looks at the first token only.  In a tree parse
\* returns every statement starts with 'var' followed by an IDENTIFIER (a
\* VariableDeclaration with a name and nothing else), with 'if' or 'while'
\* followed by '(', or with an IDENTIFIER followed by '=' and an operand.
\* A statement starting with any other token is a ParseError tagged
\* 'statement' at that token (and the tag is given to nothing else); 'var'
\* not followed by an IDENTIFIER and a first IDENTIFIER not followed by '='
\* are ParseErrors tagged 'expect' at the token that follows.
C26_DispatchOnFirstToken ==
  /\ ast # NULL =>
       /\ \A k \in 1..(Len(tokens) - 1) :
            /\ StatementStart(tokens, k) =>
                 /\ tokens[k].type \in {TOKEN_VAR, TOKEN_IF, TOKEN_WHILE, TOKEN_IDENTIFIER}
                 /\ tokens[k].type = TOKEN_IDENTIFIER =>
                      /\ tokens[k + 1].type = TOKEN_EQUAL
                      /\ IsOperand(tokens[k + 2])
            /\ tokens[k].type = TOKEN_VAR =>
                 /\ StatementStart(tokens, k)
                 /\ tokens[k + 1].type = TOKEN_IDENTIFIER
                 /\ tokens[k + 2].type \in {TOKEN_SEMICOLON, TOKEN_RBRACE, TOKEN_EOF}
            /\ tokens[k].type \in {TOKEN_IF, TOKEN_WHILE} =>
                 /\ StatementStart(tokens, k)
                 /\ tokens[k + 1].type = TOKEN_LPAREN
       /\ \A nodes \in {NodesOfType(ast, NODE_VARIABLE_STATEMENT)} :
            \A j \in DOMAIN nodes : DOMAIN nodes[j] = {"type", "identifier"}
  /\ pc = "exit" /\ stderr.fmt = ParseErrorFormat =>
       \A at \in {ErrorAt} :
         /\ stderr.message = "statement"
              <=> /\ StatementStart(tokens, at)
                  /\ tokens[at].type \notin {TOKEN_VAR, TOKEN_IF, TOKEN_WHILE,
                                             TOKEN_IDENTIFIER}
         /\ at > 1 /\ tokens[at - 1].type = TOKEN_VAR =>
              /\ stderr.message = "expect"
              /\ tokens[at].type # TOKEN_IDENTIFIER
         /\ at > 1 /\ tokens[at - 1].type = TOKEN_IDENTIFIER
                   /\ StatementStart(tokens, at - 1) =>
              /\ stderr.message = "expect"
              /\ tokens[at].type # TOKEN_EQUAL

\* a statement that starts with a NUMBER or a STRING was refused
C26_Witness ==
  /\ ParseErrorIs("statement")
  /\ StatementStart(tokens, ErrorAt)
  /\ tokens[ErrorAt].type \in {TOKEN_NUMBER, TOKEN_STRING}

(***************************************************************************)
(* Lexemes                                                                 *)
(***************************************************************************)
\* index of the closing quote of the string literal token k
ClosingQuote(k) == QuoteAt(input, token_start[k] + 1)

\* C27: the text of a STRING token is the characters strictly between the
\* opening and the closing double quote, neither quote included, and the
\* scan resumes at the character after the closing quote.  As stated, this
\* fails: the text begins with the opening quote.
C27_StringTextBetweenQuotes ==
  \A k \in DOMAIN tokens :
    tokens[k].type = TOKEN_STRING =>
      /\ input[token_start[k] + 1] = Ord("\"")
      /\ ClosingQuote(k) < Len(input)
      /\ pc = "tokenize" => i >= ClosingQuote(k) + 1
      /\ k = Len(tokens) /\ pc = "tokenize" /\ i = ClosingQuote(k) + 1
           => state = STATE_SEARCHING
      /\ k < Len(tokens) /\ tokens[k + 1].type # TOKEN_EOF
           => token_start[k + 1] >= ClosingQuote(k) + 1
      /\ tokens[k].value.str
           = Extract(input, token_start[k] + 1, ClosingQuote(k) - (token_start[k] + 1))

IsWordKind(type) ==
  type \in {TOKEN_VAR, TOKEN_IF, TOKEN_ELSE, TOKEN_WHILE, TOKEN_IDENTIFIER}

\* C28: a lexeme of letters and underscores has kind VAR, IF, ELSE or WHILE
\* if and only if it is exactly "var", "if", "else" or "while", case
\* observed; every other such lexeme is an IDENTIFIER, also one that
\* starts with or contains a keyword or differs from it in case only.
C28_KeywordsExact ==
  \A k \in DOMAIN tokens :
    IsWordKind(tokens[k].type) =>
      \A text \in {tokens[k].value.str} :
        /\ text = Extract(input, token_start[k], Len(text))
        /\ Len(text) = LettersEnd(input, token_start[k]) - token_start[k]
        /\ tokens[k].type = TOKEN_VAR <=> text = <<118, 97, 114>>
        /\ tokens[k].type = TOKEN_IF <=> text = <<105, 102>>
        /\ tokens[k].type = TOKEN_ELSE <=> text = <<101, 108, 115, 101>>
        /\ tokens[k].type = TOKEN_WHILE <=> text = <<119, 104, 105, 108, 101>>

\* "iff variable If if" was tokenized: three identifiers and one keyword
C28_Witness ==
  /\ TokenizeReturned
  /\ Len(tokens) = 5
  /\ tokens[1].type = TOKEN_IDENTIFIER /\ tokens[1].value.str = <<105, 102, 102>>
  /\ tokens[2].type = TOKEN_IDENTIFIER /\ Len(tokens[2].value.str) = 8
  /\ tokens[3].type = TOKEN_IDENTIFIER /\ tokens[3].value.str = <<73, 102>>
  /\ tokens[4].type = TOKEN_IF

\* the token that starts at index `start` of the input, 0 if there is none
TokenAt(start) ==
  IF \E k \in DOMAIN tokens : tokens[k].type # TOKEN_EOF /\ token_start[k] = start
    THEN CHOOSE k \in DOMAIN tokens : tokens[k].type # TOKEN_EOF /\ token_start[k] = start
    ELSE 0

\* lexeme j of the input is a word or a number and lexeme j + 1 touches it
Touching(ls, j) ==
  /\ j < Len(ls)
  /\ (IsWordKind(ls[j].type) \/ ls[j].type = TOKEN_NUMBER)
  /\ ls[j + 1].start = ls[j].start + Len(ls[j].text)

\* the tokens are made of letters and underscores only, or of digits only
LexemesPure ==
  \A k \in DOMAIN tokens :
    /\ IsWordKind(tokens[k].type) =>
         /\ Len(tokens[k].value.str) >= 1
         /\ \A n \in DOMAIN tokens[k].value.str : is_alpha(tokens[k].value.str[n])
    /\ tokens[k].type = TOKEN_NUMBER =>
         /\ Len(tokens[k].value.str) >= 1
         /\ \A n \in DOMAIN tokens[k].value.str : is_digit(tokens[k].value.str[n])

\* C29: an identifier lexeme holds letters and underscores only, a number
\* lexeme digits only, and the character that ends one is handed to
\* Searching unconsumed: when tokenize has returned, a lexeme that touches
\* the end of a word or number (a digit after letters, a letter after
\* digits, a punctuation character after either) has a token of its own,
\* right after the token of that word or number.  As stated, this fails
\* for a word or number that ends the input ("x1"): see C2_NoLexemeLost.
C29_TerminatorNotConsumed ==
  /\ LexemesPure
  /\ TokenizeReturned =>
       \A ls \in {Lexemes(input, 0)} :
         \A j \in DOMAIN ls :
           Touching(ls, j) =>
             \A k \in {TokenAt(ls[j].start)} :
               /\ k # 0
               /\ tokens[k].type = ls[j].type
               /\ tokens[k].value.str = ls[j].text
               /\ k + 1 = TokenAt(ls[j + 1].start)
               /\ tokens[k + 1].type = ls[j + 1].type

\* storage of two tokens' texts is the same: both point at the array str
\* of the same block of the Searching case
SharesStorage(j, k) ==
  /\ tokens[j].value.loc = "stack"
  /\ tokens[k].value.loc = "stack"
  /\ is_separator(tokens[j].value.str[1]) = is_separator(tokens[k].value.str[1])

\* C30: once a token is appended its kind, text, line and column never
\* change while the token sequence lives: the text of every token is in
\* storage that lives as long as the sequence (the text of a punctuation
\* or operator token stays its character), and no two tokens share the
\* storage of their text.  As stated, this fails: the text of a
\* punctuation or operator token is the block-local array of the scan
\* loop, dead before the next character is read.
C30_TokensImmutable ==
  \A k \in DOMAIN tokens :
    /\ tokens[k].value.loc \in {"heap", "static"}
    /\ tokens[k].type \in TOKEN_LPAREN..TOKEN_EQUAL =>
         tokens[k].value.str = <<input[token_start[k] + 1]>>
    /\ \A j \in DOMAIN tokens : j # k => ~SharesStorage(j, k)

(***************************************************************************)
(* The parser's cursor                                                     *)
(***************************************************************************)
EndOfInputFormat == "Unexpected end of input"

\* C32: for every token sequence tokenize produces, the cursor of the
\* parser never moves past the EOF token (current_token_index stays below
\* token_count; it only ever grows, so its last value bounds the others),
\* the exit 'Unexpected end of input' of next_token is never taken, and a
\* parse that runs out of tokens is reported by parser_error with the line
\* and column of the EOF token.
C32_CursorBeforeEnd ==
  /\ pc = "exit" => stderr.fmt # EndOfInputFormat
  /\ pc \in {"parse", "parsed", "exit"} /\ TokenizeReturned =>
       \A r \in {parse(tokens)} :
         /\ r.p.token_count = Len(tokens)
         /\ r.p.current_token_index < r.p.token_count
         /\ r.p.report.fmt # EndOfInputFormat
         /\ ~Exited(r.p) => r.p.current_token_index = r.p.token_count - 1
         /\ Exited(r.p) /\ current_token(r.p).type = TOKEN_EOF =>
              /\ r.p.report.fmt = ParseErrorFormat
              /\ r.p.report.line = tokens[Len(tokens)].line
              /\ r.p.report.column = tokens[Len(tokens)].column

\* a parse that ran out of tokens: the error is at the EOF token
C32_Witness ==
  /\ pc = "exit"
  /\ stderr.fmt = ParseErrorFormat
  /\ Len(tokens) >= 3
  /\ ErrorAt = Len(tokens)
  /\ stderr.line = tokens[Len(tokens)].line
  /\ stderr.column = tokens[Len(tokens)].column

\* C33: parse ends on every token sequence that ends in EOF, with a tree
\* or a fatal error: each recursive call of parse_expression and of
\* parse_statement_block and each iteration of the statement loop comes
\* after the consumption of a token of its own, so their number is bounded
\* by the number of tokens consumed (plus the two of the top-level block).
C33_ParseTerminates ==
  /\ pc = "exit" => stderr.fmt # DivergedFormat
  /\ pc \in {"parse", "parsed", "exit"} /\ TokenizeReturned =>
       \A r \in {parse(tokens)} :
         /\ r.p.report.fmt # DivergedFormat
         /\ r.p.calls <= r.p.current_token_index + 2
         /\ r.p.calls <= Len(tokens) + 1
         /\ Exited(r.p) \/ r.node.type = NODE_PROGRAM

\* a parse with nested blocks and a chain of operands has ended
C33_Witness ==
  /\ pc = "parsed"
  /\ parse(tokens).p.calls >= 8
  /\ \E j \in DOMAIN NodesOf(ast) :
       /\ NodesOf(ast)[j].type = NODE_EXPRESSION
       /\ NodesOf(ast)[j].right # NULL
  /\ Len(NodesOfType(ast, NODE_STATEMENT_BLOCK)) >= 2

\* C34: if the input ends while the lexer is in String state (an opening
\* double quote without a closing one), tokenize raises no error: it
\* returns the tokens of the text before the literal, followed by EOF, and
\* no token for the literal.
C34_UnterminatedStringSilent ==
  pc # "tokenize" /\ state = STATE_STRING =>
    /\ stderr.fmt \in {NoReport.fmt, ParseErrorFormat}
    /\ input[state_start + 1] = Ord("\"")
    /\ QuoteAt(input, state_start + 1) = Len(input)
    /\ Len(tokens) >= 1
    /\ tokens[Len(tokens)].type = TOKEN_EOF
    /\ \A k \in 1..(Len(tokens) - 1) : token_start[k] < state_start
    /\ KindAndText(tokens)
         = LexemeKindAndText(Lexemes(SubSeq(input, 1, state_start), 0))
             \o <<<<TOKEN_EOF, << >> >>>>

\* tokenize has returned from String state with a token before the literal
C34_Witness ==
  /\ pc = "parse"
  /\ state = STATE_STRING
  /\ Len(tokens) = 2
  /\ tokens[1].type \in {TOKEN_IDENTIFIER, TOKEN_EQUAL, TOKEN_NUMBER}
  /\ Len(input) > state_start + 1

\* the capacities json_append can give the buffer
Capacities == {InitialCapacity * (2 ^ k) : k \in 0..6}

\* C38: after any sequence of json_append calls that follows a reset,
\* json_length < json_capacity, the bytes before json_length are the
\* appended strings one after the other in call order, the byte at
\* json_length is the terminating NUL and everything written lies inside
\* the buffer; the capacity is 4096 doubled until the contents fit.
C38_BufferHoldsAppended ==
  pc = "append" /\ appended # << >> =>
    /\ json_result # NullStr
    /\ json_length < json_capacity
    /\ json_length = Len(Flat(appended))
    /\ Len(json_result.str) <= json_capacity
    /\ SubSeq(json_result.str, 1, json_length) = Flat(appended)
    /\ json_result.str[json_length + 1] = 0
    /\ json_capacity \in Capacities
    /\ json_capacity = InitialCapacity \/ json_capacity \div 2 <= json_length

\* the buffer was grown twice by later calls and still begins with the
\* first string
C38_Witness ==
  /\ pc = "append"
  /\ Len(appended) = 3
  /\ appended[1] = Str(<<"a">>)
  /\ json_capacity = 4 * InitialCapacity
  /\ json_length > 2 * InitialCapacity

\* C35: the pointer a generateAst call returns is the shared buffer, and it
\* is valid and its contents unchanged until the next call begins; from
\* the first step of the next call on that buffer is freed, so the pointer
\* dangles, also when the next call ends in a lex or parse error.
C35_ResultValidUntilNextCall ==
  held # NotHeld =>
    IF calls = held.call
      THEN /\ pc = "returned"
           /\ json_result # NullStr
           /\ allocated = held.buffer
           /\ held.buffer \notin freed
           /\ Contents(json_result, json_length) = Buffered
      ELSE /\ calls = held.call + 1
           /\ held.buffer \in freed
           /\ json_result = NullStr \/ allocated # held.buffer

\* the call after the one whose result is held has ended in an error
C35_Witness ==
  /\ pc = "exit"
  /\ calls = 2
  /\ held.call = 1
  /\ held.buffer \in freed

\* an output file holding a whole document: balanced, indented by level,
\* closed by "}" and the final line feed
Complete(file) ==
  /\ file.loc = "file"
  /\ Len(file.str) >= 3
  /\ SubSeq(file.str, Len(file.str) - 1, Len(file.str)) = Str(<<"}", "\n">>)
  /\ Indented(file.str)

\* C36: the batch main processes a.tst, b.tst, c.tst in that order, and a
\* lex or parse error in one of them ends the process: every input before
\* the current one has its complete output file, the failing input and the
\* later ones have none, and the timing summary is printed only after all
\* three were written.
C36_BatchStopsAtFirstError ==
  /\ calls \in 1..FileCount
  /\ input = files[calls]
  /\ Len(outputs) = IF pc \in {"written", "finished"} THEN calls ELSE calls - 1
  /\ \A k \in 1..Len(outputs) :
       /\ Complete(outputs[k])
       /\ \A j \in 1..Len(outputs) : files[j] = files[k] => outputs[j] = outputs[k]
  /\ pc = "written" =>
       outputs[calls].str = write_ast_to_json(ast, 0, tokens) \o Str(<<"\n">>)
  /\ stderr # NoReport =>
       /\ pc = "exit"
       /\ stderr.fmt \in {LexErrorFormat, ParseErrorFormat}
       /\ stdout = << >>
  /\ stdout # << >> =>
       /\ pc = "finished"
       /\ stdout = <<[fmt |-> SummaryFormat]>>
       /\ Len(outputs) = FileCount

\* b.tst failed after a.tst was written
C36_Witness ==
  /\ pc = "exit"
  /\ calls = 2
  /\ Len(outputs) = 1
  /\ Complete(outputs[1])
  /\ stdout = << >>

\* the number of decimal digits of n, none for 0
RECURSIVE DecimalDigits(_)
DecimalDigits(n) == IF n = 0 THEN 0 ELSE 1 + DecimalDigits(n \div 10)

\* the digit loop of radix_sort has ended
DigitLoopEnded == pc = "radix" /\ ~(Quotient(max, exp) > 0)

\* C37: in radix_sort, for every non-negative maximum, exp stays in the
\* range of int through every `exp *= 10`, and the digit loop ends after
\* exactly as many passes as the maximum has decimal digits (none for 0).
\* As stated, this fails: for a maximum of ten digits the product
\* 1000000000 * 10 that ends the tenth pass is not an int.
C37_DigitWeightInRange ==
  /\ ~overflowed
  /\ pc # "abort"
  /\ pc = "radix" => exp >= 1
  /\ DigitLoopEnded => passes = DecimalDigits(max)

IsSorted(data) == \A k \in 1..(Len(data) - 1) : data[k] <= data[k + 1]

Occurrences(data, v) == Cardinality({k \in DOMAIN data : data[k] = v})

IsPermutation(a, b) ==
  /\ Len(a) = Len(b)
  /\ \A k \in DOMAIN a : Occurrences(a, a[k]) = Occurrences(b, a[k])

\* a sort_func has returned in this run and the loop is at its head
SortReturned == pc \in {"bench", "finished"} /\ (iteration > 0 \/ benchmark > 1)

\* C31: for every array of non-negative integers, bubble_sort and
\* radix_sort leave the work array equal to the array quick_sort makes of
\* the same data, which is the ascending permutation of the input, so no
\* iteration of any benchmark reports a mismatch.  As stated, this fails
\* for data with a value of ten digits: radix_sort does not always return
\* (see C37_DigitWeightInRange).
C31_SortsAgree ==
  /\ pc # "abort"
  /\ benchmark >= 1 =>
       /\ IsSorted(expected_data)
       /\ IsPermutation(expected_data, original_data)
       /\ expected_data = bubble_sort(original_data)
  /\ SortReturned => work_data = expected_data
  /\ DigitLoopEnded => work_data = expected_data
  /\ \A k \in DOMAIN stdout :
       stdout[k].fmt \in {"Loaded %d data points, running %d iterations\n",
                          "%s iteration %d completed in %.2fms\n",
                          "%s: %.2fms\n",
                          "Failed to parse data.json\n"}

====
